---- MODULE Spec2Model ----
(***************************************************************************)
(* ByteFlow: a dataflow graph of byte transforms (src/nodes/*.py) evaluated *)
(* by pull (src/nodes/base.py) and driven headlessly by Pipeline            *)
(* (src/pipeline.py).                                                       *)
(*                                                                          *)
(* A byte buffer is a sequence of integers 0..255.  A text (a Python str)   *)
(* is a sequence of code points.  A node property holds a text.             *)
(***************************************************************************)
EXTENDS Integers, Sequences, FiniteSets, TLC

VARIABLES
    nodes,      \* the graph's nodes in creation order (NodeGraph.all_nodes()):
                \* records [id, kind, name, props, data], data being OutputNode._data
    conns,      \* the graph's connections: records [src, sport, dst, dport]
    ret,        \* what the last Pipeline call returned or raised
    keySeq,     \* observer: how far the calls have come along
                \* connect(key) ; resolve ; disconnect(key) ; resolve
    fnArgs,     \* operator specifications: the inputs drawn
    fnOut       \* operator specifications: the outputs computed so far

vars == <<nodes, conns, ret, keySeq, fnArgs, fnOut>>

(***************************************************************************)
(* Bytes                                                                    *)
(***************************************************************************)
RECURSIVE BitAnd(_, _)
BitAnd(a, b) ==
    IF a = 0 \/ b = 0 THEN 0
    ELSE (a % 2) * (b % 2) + 2 * BitAnd(a \div 2, b \div 2)

\* Python's d ^ k on two bytes
BitXor(a, b) == a + b - 2 * BitAnd(a, b)

Ok(buf) == [err |-> "none", out |-> buf]
Raise(e) == [err |-> e, out |-> <<>>]

Remove(s, c) == SelectSeq(s, LAMBDA x : x # c)

\* ASCII whitespace, which bytes.fromhex skips between byte pairs
IsAsciiSpace(c) == c \in {9, 10, 11, 12, 13, 32}

HexVal(c) ==
    IF c \in 48..57 THEN c - 48
    ELSE IF c \in 97..102 THEN c - 87
    ELSE IF c \in 65..70 THEN c - 55
    ELSE -1

\* bytes.fromhex(s): [ok, bytes]; ok = FALSE is ValueError.  Whitespace is
\* skipped before a byte's first digit, never between its two digits.
FromHex(s) ==
    LET t == SelectSeq(s, LAMBDA c : ~IsAsciiSpace(c))
        ok == /\ Len(t) % 2 = 0
              /\ \A i \in 1..Len(t) : HexVal(t[i]) >= 0
              /\ \A i \in 1..Len(s) :
                    IsAsciiSpace(s[i]) =>
                        Cardinality({j \in 1..(i - 1) : ~IsAsciiSpace(s[j])}) % 2 = 0
    IN  [ok |-> ok,
         bytes |-> IF ok THEN [i \in 1..(Len(t) \div 2) |->
                                  16 * HexVal(t[2 * i - 1]) + HexVal(t[2 * i])]
                   ELSE <<>>]

HexDigit(v) == IF v < 10 THEN 48 + v ELSE 87 + v

\* a hex() that writes each byte's low digit first
ToHex_LowDigitFirst(b) ==
    [i \in 1..(2 * Len(b)) |->
        IF i % 2 = 1 THEN HexDigit(b[(i + 1) \div 2] % 16) ELSE HexDigit(b[i \div 2] \div 16)]

\* bytes.hex(): two lowercase digits per byte
ToHex(b) ==
    [i \in 1..(2 * Len(b)) |->
        IF i % 2 = 1 THEN HexDigit(b[(i + 1) \div 2] \div 16) ELSE HexDigit(b[i \div 2] % 16)]

\* str.encode('utf-8') of one code point
Utf8Char(c) ==
    IF c < 128 THEN <<c>>
    ELSE IF c < 2048 THEN <<192 + (c \div 64), 128 + (c % 64)>>
    ELSE IF c < 65536 THEN <<224 + (c \div 4096), 128 + ((c \div 64) % 64), 128 + (c % 64)>>
    ELSE <<240 + (c \div 262144), 128 + ((c \div 4096) % 64),
           128 + ((c \div 64) % 64), 128 + (c % 64)>>

RECURSIVE Utf8Encode(_)
Utf8Encode(t) ==
    IF t = <<>> THEN <<>> ELSE Utf8Char(Head(t)) \o Utf8Encode(Tail(t))

IsCont(b, i) == i <= Len(b) /\ b[i] \in 128..191

\* bytes.decode('utf-8') (strict) from position i on: [ok, text]; ok = FALSE is
\* UnicodeDecodeError
RECURSIVE Utf8DecodeAt(_, _)
Utf8DecodeAt(b, i) ==
    IF i > Len(b) THEN [ok |-> TRUE, text |-> <<>>]
    ELSE LET c == b[i]
             n == IF c < 128 THEN 1
                  ELSE IF c \in 194..223 THEN 2
                  ELSE IF c \in 224..239 THEN 3
                  ELSE IF c \in 240..244 THEN 4
                  ELSE 0
             cp == IF n = 1 THEN c
                   ELSE IF n = 2 /\ IsCont(b, i + 1)
                        THEN (c - 192) * 64 + (b[i + 1] - 128)
                   ELSE IF n = 3 /\ IsCont(b, i + 1) /\ IsCont(b, i + 2)
                        THEN (c - 224) * 4096 + (b[i + 1] - 128) * 64 + (b[i + 2] - 128)
                   ELSE IF n = 4 /\ IsCont(b, i + 1) /\ IsCont(b, i + 2) /\ IsCont(b, i + 3)
                        THEN (c - 240) * 262144 + (b[i + 1] - 128) * 4096
                             + (b[i + 2] - 128) * 64 + (b[i + 3] - 128)
                   ELSE -1
             valid == /\ cp >= 0
                      /\ n = 3 => (cp >= 2048 /\ cp \notin 55296..57343)
                      /\ n = 4 => cp \in 65536..1114111
         IN  IF ~valid THEN [ok |-> FALSE, text |-> <<>>]
             ELSE LET r == Utf8DecodeAt(b, i + n)
                  IN  [ok |-> r.ok, text |-> IF r.ok THEN <<cp>> \o r.text ELSE <<>>]

Utf8Decode(b) == Utf8DecodeAt(b, 1)

\* str.strip(): whitespace dropped at both ends
RECURSIVE LStrip(_)
LStrip(t) == IF t # <<>> /\ IsAsciiSpace(Head(t)) THEN LStrip(Tail(t)) ELSE t

RECURSIVE RStrip(_)
RStrip(t) ==
    IF t # <<>> /\ IsAsciiSpace(t[Len(t)]) THEN RStrip(SubSeq(t, 1, Len(t) - 1)) ELSE t

Strip(t) == RStrip(LStrip(t))

IsDigit(c) == c \in 48..57

\* the digits of an int literal, single underscores allowed between digits:
\* [ok, val], read left to right with acc the value so far
RECURSIVE DigitsAt(_, _, _)
DigitsAt(t, i, acc) ==
    IF i > Len(t) THEN [ok |-> TRUE, val |-> acc]
    ELSE IF IsDigit(t[i]) THEN DigitsAt(t, i + 1, 10 * acc + (t[i] - 48))
    ELSE IF t[i] = 95 /\ i > 1 /\ IsDigit(t[i - 1]) /\ i < Len(t) /\ IsDigit(t[i + 1])
         THEN DigitsAt(t, i + 1, acc)
    ELSE [ok |-> FALSE, val |-> 0]

\* int(text): [ok, val]; ok = FALSE is ValueError
ParseInt(text) ==
    LET t == Strip(text)
        signed == t # <<>> /\ Head(t) \in {43, 45}
        body == IF signed THEN Tail(t) ELSE t
        d == IF body = <<>> \/ ~IsDigit(Head(body))
             THEN [ok |-> FALSE, val |-> 0]
             ELSE DigitsAt(body, 1, 0)
    IN  [ok |-> d.ok, val |-> IF signed /\ Head(t) = 45 THEN 0 - d.val ELSE d.val]

\* An optional integer: None is <<>>, the integer v is <<v>>
None == <<>>
Some(v) == <<v>>

\* Python's data[start:end]: a bound's offset in a buffer of n bytes
SliceIndex(i, n, dflt) ==
    IF i = None THEN dflt
    ELSE IF i[1] < 0 THEN (IF n + i[1] < 0 THEN 0 ELSE n + i[1])
    ELSE IF i[1] > n THEN n ELSE i[1]

Slice(data, start, end) ==
    LET n == Len(data)
        lo == SliceIndex(start, n, 0)
        hi == SliceIndex(end, n, n)
    IN  IF lo >= hi THEN <<>> ELSE SubSeq(data, lo + 1, hi)

\* Python's data * count
Times(data, count) ==
    IF count <= 0 THEN <<>>
    ELSE [i \in 1..(Len(data) * count) |-> data[((i - 1) % Len(data)) + 1]]

(***************************************************************************)
(* Texts of the catalog: property defaults and combo items                  *)
(***************************************************************************)
S_Hello == <<72, 101, 108, 108, 111>>                       \* 'Hello'
S_HelloHex == <<52, 56, 54, 53, 54, 99, 54, 99, 54, 102>>   \* '48656c6c6f'
S_00 == <<48, 48>>                                          \* '00'
S_Zero16Hex == [i \in 1..32 |-> 48]                         \* '00' * 16
S_CBC_Encrypt == <<67, 66, 67, 32, 69, 110, 99, 114, 121, 112, 116>>
S_CBC_Decrypt == <<67, 66, 67, 32, 68, 101, 99, 114, 121, 112, 116>>
S_ECB_Encrypt == <<69, 67, 66, 32, 69, 110, 99, 114, 121, 112, 116>>
S_ECB_Decrypt == <<69, 67, 66, 32, 68, 101, 99, 114, 121, 112, 116>>
S_CTR == <<67, 84, 82>>
S_ECB == <<69, 67, 66>>
S_Encrypt == <<69, 110, 99, 114, 121, 112, 116>>
S_Hex == <<72, 101, 120>>
S_Raw == <<82, 97, 119>>
S_13 == <<49, 51>>
S_0 == <<48>>
S_2 == <<50>>
S_Start_Length == <<83, 116, 97, 114, 116, 32, 43, 32, 76, 101, 110, 103, 116, 104>>
S_Start_End == <<83, 116, 97, 114, 116, 32, 43, 32, 69, 110, 100>>
S_bytes == <<32, 98, 121, 116, 101, 115>>                   \* ' bytes'
S_0_bytes == <<48, 32, 98, 121, 116, 101, 115>>             \* '0 bytes'
S_dots == <<46, 46, 46>>                                    \* '...'

\* Python's  sub in text
Contains(text, sub) ==
    \E i \in 1..(Len(text) - Len(sub) + 1) : SubSeq(text, i, i + Len(sub) - 1) = sub

\* str(n) for n >= 0
RECURSIVE IntToText(_)
IntToText(n) == IF n < 10 THEN <<48 + n>> ELSE IntToText(n \div 10) \o <<48 + (n % 10)>>

(***************************************************************************)
(* Transform catalog: each process() as a function of the buffers at the    *)
(* node's input ports and of its properties; the result is Ok(buffer set on *)
(* the output port) or Raise(exception leaving process()).                  *)
(***************************************************************************)

\* ---- XOR (crypto_nodes.py) ----
\* XorBytes with the key indexed from its second byte
XorBytes_KeyOffByOne(data, key) ==
    [i \in 1..Len(data) |-> BitXor(data[i], key[(i % Len(key)) + 1])]

\* XorBytes with + in place of ^
XorBytes_Add(data, key) ==
    [i \in 1..Len(data) |-> (data[i] + key[((i - 1) % Len(key)) + 1]) % 256]

XorBytes(data, key) ==
    [i \in 1..Len(data) |-> BitXor(data[i], key[((i - 1) % Len(key)) + 1])]

\* HexKey with the property tried first
HexKey_ParamFirst(keyPort, key_hex) ==
    LET p == FromHex(Remove(key_hex, 32))
    IN  IF p.ok /\ p.bytes # <<>> THEN p.bytes
        ELSE IF keyPort # <<>> THEN keyPort ELSE <<0>>

\* HexKey without the parse of key_hex
HexKey_NoParam(keyPort, key_hex) ==
    IF keyPort # <<>> THEN keyPort ELSE <<0>>

\* the key of XOR and RC4: the key port's buffer unless empty, else key_hex
HexKey(keyPort, key_hex) ==
    IF keyPort # <<>> THEN keyPort
    ELSE LET p == FromHex(Remove(key_hex, 32))
         IN  IF p.ok THEN p.bytes ELSE <<0>>

XORProcess(data, keyPort, props) ==
    LET key == HexKey(keyPort, props["key_hex"])
    IN  IF data = <<>> \/ key = <<>> THEN Ok(<<>>)
        ELSE Ok(XorBytes(data, key))

\* ---- RC4 (crypto_nodes.py; the cipher is Crypto.Cipher.ARC4) ----
ARC4MaxKey == 256

\* The permutation S of 0..255 is kept as a sequence: S[x + 1] is its value at x.
\* key scheduling, steps lo..hi from the state [S, j]: [S, j] after them
RECURSIVE KSA(_, _, _, _)
KSA(st, key, lo, hi) ==
    IF lo = hi
    THEN LET j2 == (st.j + st.S[lo + 1] + key[(lo % Len(key)) + 1]) % 256
         IN  [S |-> [st.S EXCEPT ![lo + 1] = st.S[j2 + 1], ![j2 + 1] = st.S[lo + 1]], j |-> j2]
    ELSE LET mid == (lo + hi) \div 2
             half == KSA(st, key, lo, mid)
         IN  IF half.j >= 0 THEN KSA(half, key, mid + 1, hi) ELSE half

RECURSIVE PRGA(_, _, _, _, _)
PRGA(S, data, k, i, j) ==
    IF k > Len(data) THEN <<>>
    ELSE LET i2 == (i + 1) % 256
             j2 == (j + S[i2 + 1]) % 256
             S2 == [S EXCEPT ![i2 + 1] = S[j2 + 1], ![j2 + 1] = S[i2 + 1]]
             K == S2[((S2[i2 + 1] + S2[j2 + 1]) % 256) + 1]
         IN  <<BitXor(data[k], K)>> \o PRGA(S2, data, k + 1, i2, j2)

ARC4Encrypt(key, data) ==
    PRGA(KSA([S |-> [x \in 1..256 |-> x - 1] \o <<>>, j |-> 0], key, 0, 255).S, data, 1, 0, 0)

RC4Process(data, keyPort, props) ==
    LET key == HexKey(keyPort, props["key_hex"])
    IN  IF data = <<>> \/ key = <<>> THEN Ok(<<>>)
        ELSE IF Len(key) > ARC4MaxKey THEN Raise("ValueError")  \* ARC4.new, not caught
        ELSE Ok(ARC4Encrypt(key, data))

\* ---- AES (crypto_nodes.py; the cipher is Crypto.Cipher.AES) ----
AESBlockSize == 16

LJust16(b) == SubSeq(b \o [i \in 1..AESBlockSize |-> 0], 1, AESBlockSize)

\* key or iv before coercion: the port's buffer unless empty, else the hex
\* property, else 16 zero bytes
AESParam(portBuf, hexText) ==
    IF portBuf # <<>> THEN portBuf
    ELSE LET p == FromHex(Remove(hexText, 32))
         IN  IF p.ok THEN p.bytes ELSE [i \in 1..16 |-> 0]

\* a coercion that cuts every key to 16 bytes
AESKey_AlwaysCoerces(keyPort, key_hex) == LJust16(AESParam(keyPort, key_hex))

AESKey(keyPort, key_hex) ==
    LET key == AESParam(keyPort, key_hex)
    IN  IF Len(key) \notin {16, 24, 32} THEN LJust16(key) ELSE key

AESIv(ivPort, iv_hex) ==
    LET iv == AESParam(ivPort, iv_hex)
    IN  IF Len(iv) # 16 THEN LJust16(iv) ELSE iv

\* Crypto.Util.Padding.pad / unpad (pkcs7)
Pad(data) ==
    LET n == AESBlockSize - (Len(data) % AESBlockSize)
    IN  data \o [i \in 1..n |-> n]

Unpad(p) ==
    LET len == Len(p)
        n == IF len = 0 THEN 0 ELSE p[len]
        good == /\ len > 0
                /\ len % AESBlockSize = 0
                /\ n >= 1 /\ n <= AESBlockSize
                /\ \A i \in (len - n + 1)..len : p[i] = n
    IN  [ok |-> good, data |-> IF good THEN SubSeq(p, 1, len - n) ELSE <<>>]

\* The AES block permutation is the library's.  It is represented by a keyed
\* permutation of 16-byte blocks that depends on every key byte and on the
\* key length: rotate the block by one byte, then XOR with the folded key.
FoldKey(key) ==
    [i \in 1..AESBlockSize |->
        BitXor(BitXor(key[i], IF i + 16 <= Len(key) THEN key[i + 16] ELSE 0), Len(key))]

EncryptBlock(key, b) ==
    LET K == FoldKey(key)
    IN  [i \in 1..AESBlockSize |-> BitXor(b[(i % AESBlockSize) + 1], K[i])]

DecryptBlock(key, c) ==
    LET K == FoldKey(key)
    IN  [j \in 1..AESBlockSize |->
            LET i == ((j + AESBlockSize - 2) % AESBlockSize) + 1
            IN  BitXor(c[i], K[i])]

XorBlock(a, b) == [i \in 1..AESBlockSize |-> BitXor(a[i], b[i])]

BlockAt(d, k) == SubSeq(d, AESBlockSize * (k - 1) + 1, AESBlockSize * k)

RECURSIVE ECBEncrypt(_, _)
ECBEncrypt(key, d) ==
    IF d = <<>> THEN <<>>
    ELSE EncryptBlock(key, BlockAt(d, 1)) \o ECBEncrypt(key, SubSeq(d, AESBlockSize + 1, Len(d)))

RECURSIVE ECBDecrypt(_, _)
ECBDecrypt(key, d) ==
    IF d = <<>> THEN <<>>
    ELSE DecryptBlock(key, BlockAt(d, 1)) \o ECBDecrypt(key, SubSeq(d, AESBlockSize + 1, Len(d)))

RECURSIVE CBCEncrypt(_, _, _)
CBCEncrypt(key, prev, d) ==
    IF d = <<>> THEN <<>>
    ELSE LET c == EncryptBlock(key, XorBlock(BlockAt(d, 1), prev))
         IN  c \o CBCEncrypt(key, c, SubSeq(d, AESBlockSize + 1, Len(d)))

RECURSIVE CBCDecrypt(_, _, _)
CBCDecrypt(key, prev, d) ==
    IF d = <<>> THEN <<>>
    ELSE LET c == BlockAt(d, 1)
         IN  XorBlock(DecryptBlock(key, c), prev)
                 \o CBCDecrypt(key, c, SubSeq(d, AESBlockSize + 1, Len(d)))

\* the 128-bit big-endian counter plus one; <<>> when it wraps around
RECURSIVE CounterInc(_)
CounterInc(c) ==
    IF c = <<>> THEN <<>>
    ELSE IF c[Len(c)] < 255 THEN [c EXCEPT ![Len(c)] = c[Len(c)] + 1]
    ELSE LET hi == CounterInc(SubSeq(c, 1, Len(c) - 1))
         IN  IF hi = <<>> THEN <<>> ELSE hi \o <<0>>

\* CTR: [ok, data]; ok = FALSE is the library's OverflowError on a wrapped counter
RECURSIVE CTRCrypt(_, _, _)
CTRCrypt(key, ctr, d) ==
    IF d = <<>> THEN [ok |-> TRUE, data |-> <<>>]
    ELSE IF ctr = <<>> THEN [ok |-> FALSE, data |-> <<>>]
    ELSE LET n == IF Len(d) < AESBlockSize THEN Len(d) ELSE AESBlockSize
             ks == EncryptBlock(key, ctr)
             r == CTRCrypt(key, CounterInc(ctr), SubSeq(d, n + 1, Len(d)))
         IN  [ok |-> r.ok,
              data |-> IF r.ok THEN [i \in 1..n |-> BitXor(d[i], ks[i])] \o r.data ELSE <<>>]

AESProcess(data, keyPort, ivPort, props) ==
    LET key == AESKey(keyPort, props["key_hex"])
        iv == AESIv(ivPort, props["iv_hex"])
        mode == props["mode"]
        aligned == Len(data) % AESBlockSize = 0
    IN  IF data = <<>> THEN Ok(<<>>)
        ELSE IF Contains(mode, S_ECB) THEN
            IF Contains(mode, S_Encrypt) THEN Ok(ECBEncrypt(key, Pad(data)))
            ELSE IF ~aligned THEN Ok(<<>>)          \* ValueError, caught
            ELSE LET dec == ECBDecrypt(key, data)
                     u == Unpad(dec)
                 IN  Ok(IF u.ok THEN u.data ELSE dec)
        ELSE IF Contains(mode, S_CTR) THEN
            LET r == CTRCrypt(key, iv, data)
            IN  Ok(IF r.ok THEN r.data ELSE <<>>)   \* OverflowError, caught
        ELSE
            IF Contains(mode, S_Encrypt) THEN Ok(CBCEncrypt(key, iv, Pad(data)))
            ELSE IF ~aligned THEN Ok(<<>>)          \* ValueError, caught
            ELSE LET dec == CBCDecrypt(key, iv, data)
                     u == Unpad(dec)
                 IN  Ok(IF u.ok THEN u.data ELSE dec)

\* ---- ROT (encoding_nodes.py) ----
ROTShift(shiftText) ==
    LET p == ParseInt(shiftText) IN IF p.ok THEN p.val % 26 ELSE 13

\* a shift that does not wrap around the alphabet
ROTByte_NoWrap(byte, shift) ==
    IF byte \in 97..122 \/ byte \in 65..90 THEN byte + shift ELSE byte

ROTByte(byte, shift) ==
    IF byte \in 97..122 THEN ((byte - 97 + shift) % 26) + 97
    ELSE IF byte \in 65..90 THEN ((byte - 65 + shift) % 26) + 65
    ELSE byte

ROTProcess(data, props) ==
    IF data = <<>> THEN Ok(<<>>)
    ELSE LET shift == ROTShift(props["shift"])
         IN  Ok([i \in 1..Len(data) |-> ROTByte(data[i], shift)])

\* ---- Reverse, Substring, Repeat, Take Bytes (util_nodes.py) ----
ReverseProcess(data) == Ok([i \in 1..Len(data) |-> data[Len(data) + 1 - i]])

SubstringStart(startText) ==
    LET p == ParseInt(startText) IN IF p.ok THEN p.val ELSE 0

SubstringEnd(endText) ==
    LET end_str == Strip(endText)
        p == ParseInt(end_str)
    IN  IF end_str # <<>> /\ p.ok THEN Some(p.val) ELSE None

SubstringProcess(data, props) ==
    IF data = <<>> THEN Ok(<<>>)
    ELSE Ok(Slice(data, Some(SubstringStart(props["start"])), SubstringEnd(props["end"])))

RepeatCount(countText) ==
    LET p == ParseInt(countText)
    IN  IF p.ok THEN (IF p.val < 1 THEN 1 ELSE p.val) ELSE 1

RepeatProcess(data, props) ==
    IF data = <<>> THEN Ok(<<>>)
    ELSE Ok(Times(data, RepeatCount(props["count"])))

TakeBytesStart(mode, startText) ==
    LET start_str == Strip(startText)
        p == ParseInt(start_str)
    IN  IF start_str # <<>> THEN (IF p.ok THEN Some(p.val) ELSE Some(0))
        ELSE IF mode = S_Start_End THEN None ELSE Some(0)

TakeBytesParam2(param2Text) ==
    LET param2_str == Strip(param2Text)
        p == ParseInt(param2_str)
    IN  IF param2_str # <<>> /\ p.ok THEN Some(p.val) ELSE None

TakeBytesProcess(data, props) ==
    LET mode == props["mode"]
        start == TakeBytesStart(mode, props["start"])
        param2 == TakeBytesParam2(props["param2"])
    IN  IF data = <<>> THEN Ok(<<>>)
        ELSE IF mode = S_Start_Length THEN
            LET st == IF start = None THEN 0 ELSE start[1]
            IN  IF param2 = None THEN Ok(Slice(data, Some(st), None))
                ELSE LET actual_start == IF st < 0 THEN Len(data) + st ELSE st
                     IN  Ok(Slice(data, Some(actual_start), Some(actual_start + param2[1])))
        ELSE Ok(Slice(data, start, param2))

(***************************************************************************)
(* MD5 (hash_nodes.py; the digest is hashlib.md5, RFC 1321).  A 32-bit word *)
(* is a pair <<high 16 bits, low 16 bits>>.                                 *)
(***************************************************************************)
And16(a, b) == BitAnd(a, b)
Or16(a, b) == a + b - BitAnd(a, b)
Not16(a) == 65535 - a

WAnd(x, y) == <<And16(x[1], y[1]), And16(x[2], y[2])>>
WOr(x, y) == <<Or16(x[1], y[1]), Or16(x[2], y[2])>>
WXor(x, y) == <<BitXor(x[1], y[1]), BitXor(x[2], y[2])>>
WNot(x) == <<Not16(x[1]), Not16(x[2])>>

\* addition modulo 2^32
WAdd(x, y) == <<(x[1] + y[1] + ((x[2] + y[2]) \div 65536)) % 65536, (x[2] + y[2]) % 65536>>

\* rotation to the left by n < 16 bits, then by any s < 32
Rotl16(x, n) ==
    IF n = 0 THEN x
    ELSE <<(x[1] % (2 ^ (16 - n))) * (2 ^ n) + (x[2] \div (2 ^ (16 - n))),
           (x[2] % (2 ^ (16 - n))) * (2 ^ n) + (x[1] \div (2 ^ (16 - n)))>>

Rotl(x, s) == IF s >= 16 THEN Rotl16(<<x[2], x[1]>>, s - 16) ELSE Rotl16(x, s)

\* the per-round shift amounts
MD5S ==
    <<
       7, 12, 17, 22, 7, 12, 17, 22, 7, 12, 17, 22, 7, 12, 17, 22,
       5, 9, 14, 20, 5, 9, 14, 20, 5, 9, 14, 20, 5, 9, 14, 20,
       4, 11, 16, 23, 4, 11, 16, 23, 4, 11, 16, 23, 4, 11, 16, 23,
       6, 10, 15, 21, 6, 10, 15, 21, 6, 10, 15, 21, 6, 10, 15, 21 >>

\* the per-round constants floor(2^32 * abs(sin(i + 1)))
MD5K ==
    <<
       <<55146, 42104>>, <<59591, 46934>>, <<9248, 28891>>, <<49597, 52974>>,
       <<62844, 4015>>, <<18311, 50730>>, <<43056, 17939>>, <<64838, 38145>>,
       <<27008, 39128>>, <<35652, 63407>>, <<65535, 23473>>, <<35164, 55230>>,
       <<27536, 4386>>, <<64920, 29075>>, <<42617, 17294>>, <<18868, 2081>>,
       <<63006, 9570>>, <<49216, 45888>>, <<9822, 23121>>, <<59830, 51114>>,
       <<54831, 4189>>, <<580, 5203>>, <<55457, 59009>>, <<59347, 64456>>,
       <<8673, 52710>>, <<49975, 2006>>, <<62677, 3463>>, <<17754, 5357>>,
       <<43491, 59653>>, <<64751, 41976>>, <<26479, 729>>, <<36138, 19594>>,
       <<65530, 14658>>, <<34673, 63105>>, <<28061, 24866>>, <<64997, 14348>>,
       <<42174, 59972>>, <<19422, 53161>>, <<63163, 19296>>, <<48831, 48240>>,
       <<10395, 32454>>, <<60065, 10234>>, <<54511, 12421>>, <<1160, 7429>>,
       <<55764, 53305>>, <<59099, 39397>>, <<8098, 31992>>, <<50348, 22117>>,
       <<62505, 8772>>, <<17194, 65431>>, <<43924, 9127>>, <<64659, 41017>>,
       <<25947, 22979>>, <<36620, 52370>>, <<65519, 62589>>, <<34180, 24017>>,
       <<28584, 32335>>, <<65068, 59104>>, <<41729, 17172>>, <<19976, 4513>>,
       <<63315, 32386>>, <<48442, 62005>>, <<10967, 53947>>, <<60294, 54161>> >>

MD5F(i, B, C, D) ==
    IF i < 16 THEN WOr(WAnd(B, C), WAnd(WNot(B), D))
    ELSE IF i < 32 THEN WOr(WAnd(D, B), WAnd(WNot(D), C))
    ELSE IF i < 48 THEN WXor(WXor(B, C), D)
    ELSE WXor(C, WOr(B, WNot(D)))

MD5G(i) ==
    IF i < 16 THEN i
    ELSE IF i < 32 THEN (5 * i + 1) % 16
    ELSE IF i < 48 THEN (3 * i + 5) % 16
    ELSE (7 * i) % 16

\* round i on the state [A, B, C, D] and the block's words M
MD5Step(st, M, i) ==
    [A |-> st.D, D |-> st.C, C |-> st.B,
     B |-> WAdd(st.B, Rotl(WAdd(WAdd(WAdd(MD5F(i, st.B, st.C, st.D), st.A), MD5K[i + 1]),
                                M[MD5G(i) + 1]), MD5S[i + 1]))]

\* rounds lo..hi
RECURSIVE MD5Rounds(_, _, _, _)
MD5RoundsOn(half, M, lo, hi) ==
    IF half.B[1] >= 0 THEN MD5Rounds(half, M, lo, hi) ELSE half

MD5Rounds(st, M, lo, hi) ==
    IF lo = hi THEN MD5Step(st, M, lo)
    ELSE MD5RoundsOn(MD5Rounds(st, M, lo, (lo + hi) \div 2), M, ((lo + hi) \div 2) + 1, hi)

MD5Sum(h, r) ==
    [A |-> WAdd(h.A, r.A), B |-> WAdd(h.B, r.B), C |-> WAdd(h.C, r.C), D |-> WAdd(h.D, r.D)]

\* the 16 little-endian words of the k-th 64-byte block
MD5Words(p, k) ==
    [j \in 1..16 |->
        <<p[64 * (k - 1) + 4 * j] * 256 + p[64 * (k - 1) + 4 * j - 1],
          p[64 * (k - 1) + 4 * j - 2] * 256 + p[64 * (k - 1) + 4 * j - 3]>>]

RECURSIVE MD5Blocks(_, _, _)
MD5Blocks(h, p, k) ==
    IF 64 * k > Len(p) THEN h
    ELSE MD5Blocks(MD5Sum(h, MD5Rounds(h, MD5Words(p, k), 0, 63)), p, k + 1)

\* the message, the byte 80, zeros up to 56 modulo 64, the bit length on 8 bytes
MD5Pad(msg) ==
    msg \o <<128>> \o [i \in 1..((119 - Len(msg)) % 64) |-> 0]
        \o [i \in 1..8 |-> IF i <= 4 THEN ((8 * Len(msg)) \div (256 ^ (i - 1))) % 256 ELSE 0]

WBytes(x) == <<x[2] % 256, x[2] \div 256, x[1] % 256, x[1] \div 256>>

MD5Init ==
    [A |-> <<26437, 8961>>, B |-> <<61389, 43913>>, C |-> <<39098, 56574>>, D |-> <<4146, 21622>>]

MD5Bytes(h) == WBytes(h.A) \o WBytes(h.B) \o WBytes(h.C) \o WBytes(h.D)

\* hashlib.md5(msg).digest()
MD5Digest(msg) == MD5Bytes(MD5Blocks(MD5Init, MD5Pad(msg), 1))

\* MD5Node.process
\* a hash node that hands every buffer to the digest
MD5Process_HashesEmpty(data, props) ==
    IF props["format"] = S_Hex THEN Ok(ToHex(MD5Digest(data))) ELSE Ok(MD5Digest(data))

MD5Process(data, props) ==
    IF data = <<>> THEN Ok(<<>>)
    ELSE IF props["format"] = S_Hex THEN Ok(ToHex(MD5Digest(data)))
    ELSE Ok(MD5Digest(data))

\* ---- Base64 (crypto_nodes.py) ----
S_Encode == <<69, 110, 99, 111, 100, 101>>                      \* 'Encode'
S_Decode == <<68, 101, 99, 111, 100, 101>>                      \* 'Decode'

\* the character of a 6-bit value: A-Z a-z 0-9 + /
B64Char(v) ==
    IF v < 26 THEN 65 + v
    ELSE IF v < 52 THEN 97 + (v - 26)
    ELSE IF v < 62 THEN 48 + (v - 52)
    ELSE IF v = 62 THEN 43 ELSE 47

\* the 6-bit value of a character, -1 outside the alphabet
B64Val(c) ==
    IF c \in 65..90 THEN c - 65
    ELSE IF c \in 97..122 THEN c - 71
    ELSE IF c \in 48..57 THEN c + 4
    ELSE IF c = 43 THEN 62
    ELSE IF c = 47 THEN 63
    ELSE -1

\* base64.b64encode: four characters per three bytes, '=' padded
Base64Encode(b) ==
    LET n == Len(b)
        at(k) == IF k <= n THEN b[k] ELSE 0
    IN  [j \in 1..(4 * ((n + 2) \div 3)) |->
            LET g == (j - 1) \div 4
                pos == (j - 1) % 4
                b0 == at(3 * g + 1)
                b1 == at(3 * g + 2)
                b2 == at(3 * g + 3)
            IN  CASE pos = 0 -> B64Char(b0 \div 4)
                  [] pos = 1 -> B64Char((b0 % 4) * 16 + (b1 \div 16))
                  [] pos = 2 -> (IF 3 * g + 2 > n THEN 61
                                 ELSE B64Char((b1 % 16) * 4 + (b2 \div 64)))
                  [] pos = 3 -> (IF 3 * g + 3 > n THEN 61 ELSE B64Char(b2 % 64))]

\* base64.b64decode(s) (binascii.a2b_base64, not strict): [ok, bytes]; ok =
\* FALSE is binascii.Error.  Characters outside the alphabet are skipped; a
\* '=' that completes a quad of 2 or 3 characters ends the parse; without
\* one the number of characters must be a multiple of 4.
Base64Decode(s) ==
    LET isData(i) == B64Val(s[i]) >= 0
        before(i) == {j \in 1..(i - 1) : isData(j)}
        \* the '=' among s[1..i] since the last character of the alphabet
        pads(i) == Cardinality({j \in 1..i : s[j] = 61 /\ \A k \in before(i) : k < j})
        ends(i) == /\ s[i] = 61
                   /\ Cardinality(before(i)) % 4 >= 2
                   /\ (Cardinality(before(i)) % 4) + pads(i) >= 4
        stops == {i \in 1..Len(s) : ends(i)}
        stop == IF stops = {} THEN Len(s) + 1 ELSE CHOOSE i \in stops : \A j \in stops : i <= j
        t == SelectSeq(SubSeq(s, 1, stop - 1), LAMBDA c : B64Val(c) >= 0)
        m == Len(t)
        ok == stops # {} \/ m % 4 = 0
        count == (m \div 4) * 3 + (IF m % 4 = 2 THEN 1 ELSE IF m % 4 = 3 THEN 2 ELSE 0)
    IN  [ok |-> ok,
         bytes |-> IF ~ok THEN <<>>
                   ELSE [j \in 1..count |->
                            LET g == (j - 1) \div 3
                                p == (j - 1) % 3
                                a == B64Val(t[4 * g + p + 1])
                                c == B64Val(t[4 * g + p + 2])
                            IN  CASE p = 0 -> a * 4 + (c \div 16)
                                  [] p = 1 -> (a % 16) * 16 + (c \div 4)
                                  [] p = 2 -> (a % 4) * 64 + c]]

\* a Base64 node that lets the decode error out of process()
Base64Process_Uncaught(data, props) ==
    IF data = <<>> THEN Ok(<<>>)
    ELSE IF props["mode"] = S_Encode THEN Ok(Base64Encode(data))
    ELSE IF Base64Decode(data).ok THEN Ok(Base64Decode(data).bytes)
    ELSE Raise("binascii.Error")

\* Base64Node.process: a failed decode is caught and gives b''
Base64Process(data, props) ==
    IF data = <<>> THEN Ok(<<>>)
    ELSE IF props["mode"] = S_Encode THEN Ok(Base64Encode(data))
    ELSE Ok(Base64Decode(data).bytes)

\* ---- Hex (encoding_nodes.py) ----
\* data.decode('utf-8', errors='replace') as bytes.fromhex sees it: an ASCII
\* byte is its own character, every other byte is part of a character above
\* U+007F (the replacement character when the sequence is malformed)
DecodeReplace(b) == [i \in 1..Len(b) |-> IF b[i] < 128 THEN b[i] ELSE 65533]

\* HexEncodeNode.process: a failed decode is caught and gives b''
HexEncodeProcess(data, props) ==
    IF data = <<>> THEN Ok(<<>>)
    ELSE IF props["mode"] = S_Encode THEN Ok(ToHex(data))
    ELSE Ok(FromHex(Remove(Remove(DecodeReplace(data), 32), 10)).bytes)

\* ---- Zlib, Gzip (util_nodes.py) ----
S_Decompress == <<68, 101, 99, 111, 109, 112, 114, 101, 115, 115>>     \* 'Decompress'

\* the shortest complete zlib stream: 2 header bytes, 2 bytes of deflate data
\* and the 4 bytes of the Adler-32 checksum
ZlibMinStream == 8

\* the shortest complete gzip member: 10 header bytes, 2 bytes of deflate
\* data and the 8 bytes of CRC-32 and length
GzipMinStream == 20

\* the two header bytes of a zlib stream that inflate accepts without a preset
\* dictionary: method 8, window bits at most 15, a multiple of 31, FDICT clear
ZlibHeaderValid(data) ==
    /\ data[1] % 16 = 8
    /\ data[1] \div 16 <= 7
    /\ (data[1] * 256 + data[2]) % 31 = 0
    /\ (data[2] \div 32) % 2 = 0

\* ZlibNode.process in Decompress mode on a buffer too short to be a complete
\* stream or with a header inflate rejects: zlib.decompress raises zlib.error,
\* which is caught and gives b''.  Other buffers and the other modes are not
\* modelled.
ZlibProcess(data, props) ==
    IF data = <<>> THEN Ok(<<>>)
    ELSE CASE props["mode"] = S_Decompress /\ Len(data) < ZlibMinStream -> Ok(<<>>)
           [] props["mode"] = S_Decompress /\ ~ZlibHeaderValid(data) -> Ok(<<>>)

\* GzipNode.process in Decompress mode on a buffer too short to be a complete
\* member: gzip.decompress raises BadGzipFile or EOFError, which is caught and
\* gives b''.  Longer buffers and Compress mode are not modelled.
GzipProcess(data, props) ==
    IF data = <<>> THEN Ok(<<>>)
    ELSE CASE props["mode"] = S_Decompress /\ Len(data) < GzipMinStream -> Ok(<<>>)

\* ---- sources (io_nodes.py) ----
\* the files open(path, 'rb') can read, by path: one file, 'f', holding 'AB'
Files == [path \in {<<102>>} |-> <<65, 66>>]

\* FileInputNode.process: a failed open or read is caught and gives b''
FileInputProcess(props) ==
    IF props["file_path"] = <<>> THEN Ok(<<>>)
    ELSE IF props["file_path"] \in DOMAIN Files THEN Ok(Files[props["file_path"]])
    ELSE Ok(<<>>)

HexInputProcess(props) ==
    LET p == FromHex(Remove(Remove(props["hex_data"], 32), 10))
    IN  Ok(IF p.ok THEN p.bytes ELSE <<>>)

TextInputProcess(props) == Ok(Utf8Encode(props["text_data"]))

\* ---- SHA1, SHA256 (hash_nodes.py; the digests are hashlib's) ----
\* the hash of a buffer that is not empty is the library's digest, which is
\* not described here
SHA1Process(data, props) ==
    CASE data = <<>> -> Ok(<<>>)

SHA256Process(data, props) ==
    CASE data = <<>> -> Ok(<<>>)

\* ---- URL Encode (encoding_nodes.py; urllib.parse.quote) ----
\* quote(text, safe=''): letters, digits and _ . - ~ stay, every other ASCII
\* character becomes %XX in upper case
QuoteByte(b) ==
    IF b \in 48..57 \/ b \in 65..90 \/ b \in 97..122 \/ b \in {95, 46, 45, 126} THEN <<b>>
    ELSE <<37, (IF (b \div 16) < 10 THEN 48 ELSE 55) + (b \div 16),
               (IF (b % 16) < 10 THEN 48 ELSE 55) + (b % 16)>>

RECURSIVE Quote(_)
Quote(t) == IF t = <<>> THEN <<>> ELSE QuoteByte(Head(t)) \o Quote(Tail(t))

\* Encode of ASCII data; unquote, and the characters that replace bytes
\* outside ASCII, are the library's and are not described here
URLEncodeProcess(data, props) ==
    CASE data = <<>> -> Ok(<<>>)
      [] data # <<>> /\ props["mode"] = S_Encode /\ (\A i \in 1..Len(data) : data[i] < 128) ->
            Ok(Quote(data))

\* ---- Atbash (encoding_nodes.py) ----
AtbashByte(byte) ==
    IF byte \in 97..122 THEN 122 - (byte - 97)
    ELSE IF byte \in 65..90 THEN 90 - (byte - 65)
    ELSE byte

AtbashProcess(data) ==
    IF data = <<>> THEN Ok(<<>>) ELSE Ok([i \in 1..Len(data) |-> AtbashByte(data[i])])

(***************************************************************************)
(* Node catalog: ports and property defaults of each kind (the __init__ of  *)
(* each node class)                                                         *)
(***************************************************************************)
SourceKinds == {"TextInputNode", "HexInputNode", "FileInputNode"}

\* every class Pipeline registers (pipeline.py ALL_NODE_CLASSES)
PipelineKinds ==
    {"XORNode", "RC4Node", "AESNode", "Base64Node", "MD5Node", "SHA1Node", "SHA256Node",
     "URLEncodeNode", "HexEncodeNode", "ROTNode", "AtbashNode", "ReverseNode", "ZlibNode",
     "GzipNode", "SubstringNode", "RepeatNode", "TakeBytesNode", "HexInputNode",
     "TextInputNode", "FileInputNode", "OutputNode"}

InPorts(kind) ==
    CASE kind \in SourceKinds -> {}
      [] kind \in {"XORNode", "RC4Node"} -> {"data", "key"}
      [] kind = "AESNode" -> {"data", "key", "iv"}
      [] kind = "OutputNode" -> {"input"}
      [] OTHER -> {"data"}

OutPorts(kind) ==
    CASE kind = "OutputNode" -> {}
      [] kind \in {"MD5Node", "SHA1Node", "SHA256Node"} -> {"hash"}
      [] OTHER -> {"output"}

DefaultProps(kind) ==
    CASE kind = "TextInputNode" -> [text_data |-> S_Hello]
      [] kind = "HexInputNode" -> [hex_data |-> S_HelloHex]
      [] kind = "FileInputNode" -> [file_path |-> <<>>]
      [] kind = "OutputNode" -> [length |-> S_0_bytes, preview |-> <<>>]
      [] kind \in {"XORNode", "RC4Node"} -> [key_hex |-> S_00]
      [] kind = "AESNode" ->
            [key_hex |-> S_Zero16Hex, iv_hex |-> S_Zero16Hex, mode |-> S_CBC_Encrypt]
      [] kind \in {"MD5Node", "SHA1Node", "SHA256Node"} -> [format |-> S_Hex]
      [] kind \in {"Base64Node", "HexEncodeNode", "URLEncodeNode"} -> [mode |-> S_Encode]
      [] kind \in {"ZlibNode", "GzipNode"} -> [mode |-> S_Decompress]
      [] kind = "ROTNode" -> [shift |-> S_13]
      [] kind = "SubstringNode" -> [start |-> S_0, end |-> <<>>]
      [] kind = "RepeatNode" -> [count |-> S_2]
      [] kind = "TakeBytesNode" -> [mode |-> S_Start_Length, start |-> <<>>, param2 |-> <<>>]
      [] OTHER -> [none |-> <<>>]

NewNode(id, kind, name) ==
    [id |-> id, kind |-> kind, name |-> name, props |-> DefaultProps(kind), data |-> <<>>]

(***************************************************************************)
(* Evaluation engine (base.py): pull, unmemoized                            *)
(***************************************************************************)
Ids(ns) == {ns[i].id : i \in 1..Len(ns)}
NodeOf(ns, id) == ns[CHOOSE i \in 1..Len(ns) : ns[i].id = id]

\* A chain of get_output_data calls longer than the number of nodes revisits
\* a node, so it never bottoms out: the recursion is unbounded.
MaxDepth(ns) == Len(ns)

\* process() of every kind but OutputNode, given what get_input_data returned
\* for the ports data, key and iv (a port the kind lacks gives b''):
\* Ok(the buffer set on the output port) or Raise
ProcessWith(n, data, key, iv) ==
    IF data.err # "none" THEN data
    ELSE IF key.err # "none" THEN key
    ELSE IF iv.err # "none" THEN iv
    ELSE CASE n.kind = "TextInputNode" -> TextInputProcess(n.props)
           [] n.kind = "HexInputNode" -> HexInputProcess(n.props)
           [] n.kind = "FileInputNode" -> FileInputProcess(n.props)
           [] n.kind = "XORNode" -> XORProcess(data.out, key.out, n.props)
           [] n.kind = "RC4Node" -> RC4Process(data.out, key.out, n.props)
           [] n.kind = "AESNode" -> AESProcess(data.out, key.out, iv.out, n.props)
           [] n.kind = "MD5Node" -> MD5Process(data.out, n.props)
           [] n.kind = "SHA1Node" -> SHA1Process(data.out, n.props)
           [] n.kind = "SHA256Node" -> SHA256Process(data.out, n.props)
           [] n.kind = "URLEncodeNode" -> URLEncodeProcess(data.out, n.props)
           [] n.kind = "AtbashNode" -> AtbashProcess(data.out)
           [] n.kind = "Base64Node" -> Base64Process(data.out, n.props)
           [] n.kind = "HexEncodeNode" -> HexEncodeProcess(data.out, n.props)
           [] n.kind = "ZlibNode" -> ZlibProcess(data.out, n.props)
           [] n.kind = "GzipNode" -> GzipProcess(data.out, n.props)
           [] n.kind = "ROTNode" -> ROTProcess(data.out, n.props)
           [] n.kind = "ReverseNode" -> ReverseProcess(data.out)
           [] n.kind = "SubstringNode" -> SubstringProcess(data.out, n.props)
           [] n.kind = "RepeatNode" -> RepeatProcess(data.out, n.props)
           [] n.kind = "TakeBytesNode" -> TakeBytesProcess(data.out, n.props)
           [] OTHER -> Ok(<<>>)

\* self._output_data.get(port_name, b'') after a process() that gave r
StoredFor(kind, port_name, r) ==
    IF r.err # "none" THEN r
    ELSE IF port_name \in OutPorts(kind) THEN r
    ELSE Ok(<<>>)

RECURSIVE GetOutputData(_, _, _, _, _)
RECURSIVE GetInputData(_, _, _, _, _)
RECURSIVE Process(_, _, _, _)

\* ByteFlowNode.get_input_data
GetInputData(ns, cs, id, port_name, fuel) ==
    IF port_name \notin InPorts(NodeOf(ns, id).kind) THEN Ok(<<>>)
    ELSE IF ~\E c \in cs : c.dst = id /\ c.dport = port_name THEN Ok(<<>>)
    ELSE GetOutputData(ns, cs, (CHOOSE c \in cs : c.dst = id /\ c.dport = port_name).src,
                       (CHOOSE c \in cs : c.dst = id /\ c.dport = port_name).sport, fuel)

\* process(): the input ports are read in the order data, key, iv
Process(ns, cs, id, fuel) ==
    ProcessWith(NodeOf(ns, id), GetInputData(ns, cs, id, "data", fuel),
                GetInputData(ns, cs, id, "key", fuel), GetInputData(ns, cs, id, "iv", fuel))

\* a get_output_data that ends a chain of calls too long for the graph with
\* the empty buffer
GetOutputData_Guarded(ns, cs, id, port_name, fuel) ==
    IF fuel = 0 THEN Ok(<<>>)
    ELSE StoredFor(NodeOf(ns, id).kind, port_name, Process(ns, cs, id, fuel - 1))

\* ByteFlowNode.get_output_data: process(), then the buffer stored for the port
GetOutputData(ns, cs, id, port_name, fuel) ==
    IF fuel = 0 THEN Raise("RecursionError")
    ELSE StoredFor(NodeOf(ns, id).kind, port_name, Process(ns, cs, id, fuel - 1))

\* OutputNode.process: the node after it, or the exception
PREVIEW_BYTES == 64

\* a preview that is never cut
OutputPreview_NoCut(data) == data

OutputPreview(data) ==
    IF data = <<>> THEN <<>>
    ELSE SubSeq(data, 1, IF Len(data) < PREVIEW_BYTES THEN Len(data) ELSE PREVIEW_BYTES)
             \o (IF Len(data) > PREVIEW_BYTES THEN S_dots ELSE <<>>)

\* a sink that keeps what it cached when its input is empty
OutputStore_KeepsOnEmpty(n, r) ==
    [err |-> r.err,
     node |-> IF r.err # "none" \/ r.out = <<>> THEN n
              ELSE [n EXCEPT !.data = r.out,
                             !.props = [length |-> IntToText(Len(r.out)) \o S_bytes,
                                        preview |-> OutputPreview(r.out)]]]

\* OutputNode.process once get_input_data('input') has given r
OutputStore(n, r) ==
    [err |-> r.err,
     node |-> IF r.err # "none" THEN n
              ELSE [n EXCEPT !.data = r.out,
                             !.props = [length |-> IntToText(Len(r.out)) \o S_bytes,
                                        preview |-> OutputPreview(r.out)]]]

OutputProcess(ns, cs, id) ==
    OutputStore(NodeOf(ns, id), GetInputData(ns, cs, id, "input", MaxDepth(ns)))

(***************************************************************************)
(* Pipeline (pipeline.py)                                                   *)
(***************************************************************************)
Replace(t, a, b) == [i \in 1..Len(t) |-> IF t[i] = a THEN b ELSE t[i]]

\* the nodes with nodes[i] replaced
SetNode(ns, i, n) == [ns EXCEPT ![i] = n]

SetProp(ns, i, prop, val) == [ns EXCEPT ![i].props[prop] = val]

\* a lookup by name among the nodes of every kind
InputNodeIndex_AnyKind(ns, node_name) ==
    LET hits == {i \in 1..Len(ns) : ns[i].name = node_name}
    IN  IF hits = {} THEN 0 ELSE CHOOSE i \in hits : \A j \in hits : j <= i

\* Pipeline.get_input_nodes()[node_name]: the index of the node, 0 if none
InputNodeIndex(ns, node_name) ==
    LET hits == {i \in 1..Len(ns) : ns[i].kind \in SourceKinds /\ ns[i].name = node_name}
    IN  IF hits = {} THEN 0 ELSE CHOOSE i \in hits : \A j \in hits : j <= i

\* Pipeline.set_input: [err, ns]
SetInputOn(ns, node_name, data) ==
    LET i == InputNodeIndex(ns, node_name)
        txt == Utf8Decode(data)
    IN  IF i = 0 THEN [err |-> "KeyError", ns |-> ns]
        ELSE IF ns[i].kind = "HexInputNode"
             THEN [err |-> "none", ns |-> SetProp(ns, i, "hex_data", ToHex(data))]
        ELSE IF ~txt.ok THEN [err |-> "UnicodeDecodeError", ns |-> ns]
        ELSE IF ns[i].kind = "TextInputNode"
             THEN [err |-> "none", ns |-> SetProp(ns, i, "text_data", txt.text)]
        ELSE [err |-> "none", ns |-> SetProp(ns, i, "file_path", txt.text)]

\* Pipeline.set_inputs over the keyword arguments from the k-th on: [err, ns]
RECURSIVE SetInputsFrom(_, _, _)

\* set_inputs after the k-th set_input has given r
SetInputsAfter(r, inputs, k) ==
    IF r.err # "none" THEN r ELSE SetInputsFrom(r.ns, inputs, k + 1)

SetInputsFrom(ns, inputs, k) ==
    IF k > Len(inputs) THEN [err |-> "none", ns |-> ns]
    ELSE SetInputsAfter(SetInputOn(ns, Replace(inputs[k].name, 95, 32), inputs[k].data),
                        inputs, k)

\* a default input that goes to the first source node of any kind
SetDefaultInput_AnySource(ns, data) ==
    LET srcs == {i \in 1..Len(ns) : ns[i].kind \in SourceKinds}
        first == CHOOSE i \in srcs : \A j \in srcs : i <= j
    IN  IF data = None \/ srcs = {} THEN [err |-> "none", ns |-> ns]
        ELSE SetInputOn(ns, ns[first].name, data[1])

\* execute, the default input: [err, ns]
SetDefaultInput(ns, data) ==
    LET texts == {i \in 1..Len(ns) : ns[i].kind = "TextInputNode"}
        first == CHOOSE i \in texts : \A j \in texts : i <= j
        txt == Utf8Decode(data[1])
    IN  IF data = None \/ texts = {} THEN [err |-> "none", ns |-> ns]
        ELSE IF ~txt.ok THEN [err |-> "UnicodeDecodeError", ns |-> ns]
        ELSE [err |-> "none", ns |-> SetProp(ns, first, "text_data", txt.text)]

\* execute, the loop over the output nodes from the k-th node on: [err, ns]
RECURSIVE ProcessSinksFrom(_, _, _)

\* the loop after the process() of the k-th node, a sink, has given r
ProcessSinksAfter(r, ns, cs, k) ==
    IF r.err # "none" THEN [err |-> r.err, ns |-> ns]
    ELSE ProcessSinksFrom(SetNode(ns, k, r.node), cs, k + 1)

ProcessSinksFrom(ns, cs, k) ==
    IF k > Len(ns) THEN [err |-> "none", ns |-> ns]
    ELSE IF ns[k].kind # "OutputNode" THEN ProcessSinksFrom(ns, cs, k + 1)
    ELSE ProcessSinksAfter(OutputProcess(ns, cs, ns[k].id), ns, cs, k)

\* a dict that gives every sink's name the buffer of the first sink
Results_FirstSink(ns) ==
    LET sinks == {i \in 1..Len(ns) : ns[i].kind = "OutputNode"}
    IN  [nm \in {ns[i].name : i \in sinks} |->
            ns[CHOOSE i \in sinks : \A j \in sinks : i <= j].data]

\* the dict execute returns: sink name -> OutputNode.get_data()
Results(ns) ==
    LET sinks == {i \in 1..Len(ns) : ns[i].kind = "OutputNode"}
    IN  [nm \in {ns[i].name : i \in sinks} |->
            ns[CHOOSE i \in sinks : ns[i].name = nm /\ \A j \in sinks : ns[j].name = nm => j <= i].data]

NoResults == [nm \in {} |-> <<>>]

\* Pipeline.execute(data, **inputs): [err, ns, results]
\* each step of execute runs unless the step before it raised
ExecuteResults(r) ==
    [err |-> r.err, ns |-> r.ns, results |-> IF r.err = "none" THEN Results(r.ns) ELSE NoResults]

ExecuteSinks(r, cs) == IF r.err # "none" THEN r ELSE ProcessSinksFrom(r.ns, cs, 1)

ExecuteDefault(r, data) == IF r.err # "none" THEN r ELSE SetDefaultInput(r.ns, data)

ExecuteOn(ns, cs, data, inputs) ==
    ExecuteResults(ExecuteSinks(ExecuteDefault(
        IF inputs # <<>> THEN SetInputsFrom(ns, inputs, 1) ELSE [err |-> "none", ns |-> ns],
        data), cs))

(***************************************************************************)
(* Graph editing (NodeGraph: create_node, connect_to, disconnect_from,      *)
(* set_property), as the specification describes it                         *)
(***************************************************************************)
NextId(ns) == 1 + Len(ns) + Cardinality({i \in 1..Len(ns) : ns[i].id > Len(ns)})

CreateNodeOn(ns, kind, name) == Append(ns, NewNode(NextId(ns), kind, name))

\* connect: the ports must exist with the right direction; a connection
\* already on the input port is replaced
CanConnect(ns, src, sport, dst, dport) ==
    /\ src \in Ids(ns) /\ dst \in Ids(ns)
    /\ sport \in OutPorts(NodeOf(ns, src).kind)
    /\ dport \in InPorts(NodeOf(ns, dst).kind)

ConnectOn(cs, src, sport, dst, dport) ==
    {c \in cs : ~(c.dst = dst /\ c.dport = dport)}
        \cup {[src |-> src, sport |-> sport, dst |-> dst, dport |-> dport]}

(***************************************************************************)
(* The values the sessions draw                                             *)
(***************************************************************************)
N_MyIn == <<77, 121, 32, 73, 110>>      \* 'My In'
N_My_In == <<77, 121, 95, 73, 110>>     \* 'My_In'
N_Key == <<75, 101, 121>>               \* 'Key'
N_Rep == <<82, 101, 112>>               \* 'Rep'
N_X == <<88>>                           \* 'X'
N_Out == <<79, 117, 116>>               \* 'Out'
N_Nope == <<78, 111, 112, 101>>         \* 'Nope'
S_ff == <<102, 102>>                    \* 'ff'
S_zz == <<122, 122>>                    \* 'zz'
S_257 == <<50, 53, 55>>                 \* '257'

\* the create_node script a session follows
Script ==
    << [kind |-> "TextInputNode", name |-> N_MyIn], [kind |-> "HexInputNode", name |-> N_Key],
       [kind |-> "XORNode", name |-> N_X], [kind |-> "OutputNode", name |-> N_Out] >>

\* the wires connect_to draws: text into data ports, hex and repeated text
\* into key and iv ports, transforms into sinks
Wired(srcKind, dstKind, dport) ==
    \/ dport = "data" /\ srcKind = "TextInputNode"
    \/ dport \in {"key", "iv"} /\ srcKind \in {"HexInputNode", "RepeatNode"}
    \/ dport = "input" /\ srcKind \notin SourceKinds

\* the values set_property draws, by property
PropChoices(kind, prop) ==
    CASE prop = "hex_data" -> {S_HelloHex, <<>>}
      [] prop = "key_hex" /\ kind # "AESNode" -> {S_00, S_ff, S_zz}
      [] prop = "key_hex" /\ kind = "AESNode" -> {S_Zero16Hex, S_ff, S_zz}
      [] prop = "iv_hex" -> {S_Zero16Hex, S_ff}
      [] prop = "count" -> {S_2, S_257}
      [] OTHER -> {}

\* the bytes set_input and execute are given
DataChoices == {<<67>>, <<255>>}

\* the default bytes execute is given: None or a buffer
DefaultChoices == {None} \cup {Some(x) : x \in DataChoices}

\* the keyword arguments execute is given
NamedChoices ==
    { <<>>,
      << [name |-> N_My_In, data |-> <<66>>] >>,
      << [name |-> N_Key, data |-> <<255>>] >>,
      << [name |-> N_My_In, data |-> <<255>>] >>,
      << [name |-> N_My_In, data |-> <<66>>], [name |-> N_Nope, data |-> <<66>>] >> }

Returned(op, err, results) == [op |-> op, err |-> err, results |-> results]

(***************************************************************************)
(* The calls made on a Pipeline.  keySeq, fnArgs and fnOut are left to the  *)
(* specification that uses an action.                                       *)
(***************************************************************************)
CreateNode(kind, name) ==
    /\ nodes' = CreateNodeOn(nodes, kind, name)
    /\ UNCHANGED <<conns, ret>>

SetProperty(i, prop, val) ==
    /\ nodes[i].props[prop] # val
    /\ nodes' = SetProp(nodes, i, prop, val)
    /\ UNCHANGED <<conns, ret>>

Connect(src, sport, dst, dport) ==
    /\ CanConnect(nodes, src, sport, dst, dport)
    /\ Wired(NodeOf(nodes, src).kind, NodeOf(nodes, dst).kind, dport)
    /\ [src |-> src, sport |-> sport, dst |-> dst, dport |-> dport] \notin conns
    /\ conns' = ConnectOn(conns, src, sport, dst, dport)
    /\ UNCHANGED <<nodes, ret>>

Disconnect(c) ==
    /\ c \in conns
    /\ conns' = conns \ {c}
    /\ UNCHANGED <<nodes, ret>>

\* the call op has given r: the graph is as the call left it
Returns(op, r) ==
    /\ nodes' = r.ns
    /\ ret' = Returned(op, r.err, r.results)
    /\ UNCHANGED conns

\* set_input returns None
ReturnsNone(r) == [err |-> r.err, ns |-> r.ns, results |-> NoResults]

SetInput(node_name, data) ==
    Returns("set_input", ReturnsNone(SetInputOn(nodes, node_name, data)))

Execute(data, inputs) == Returns("execute", ExecuteOn(nodes, conns, data, inputs))

(***************************************************************************)
(* Spec: a Pipeline() on which the script's nodes are created, wired and    *)
(* run with default bytes and named inputs                                  *)
(***************************************************************************)
Init ==
    /\ nodes = <<>>
    /\ conns = {}
    /\ ret = Returned("init", "none", NoResults)
    /\ keySeq = 0
    /\ fnArgs = <<>>
    /\ fnOut = <<>>

Next ==
    \/ /\ Len(nodes) < Len(Script)
       /\ CreateNode(Script[Len(nodes) + 1].kind, Script[Len(nodes) + 1].name)
       /\ UNCHANGED <<keySeq, fnArgs, fnOut>>
    \/ /\ \E i \in 1..Len(nodes) : \E prop \in DOMAIN nodes[i].props :
             \E val \in PropChoices(nodes[i].kind, prop) : SetProperty(i, prop, val)
       /\ UNCHANGED <<keySeq, fnArgs, fnOut>>
    \/ /\ \E src \in Ids(nodes), dst \in Ids(nodes) :
             \E sport \in OutPorts(NodeOf(nodes, src).kind),
                dport \in InPorts(NodeOf(nodes, dst).kind) : Connect(src, sport, dst, dport)
       /\ UNCHANGED <<keySeq, fnArgs, fnOut>>
    \/ /\ \E c \in conns : Disconnect(c)
       /\ UNCHANGED <<keySeq, fnArgs, fnOut>>
    \/ /\ \E nm \in {N_MyIn, N_Key, N_Nope}, d \in DataChoices : SetInput(nm, d)
       /\ UNCHANGED <<keySeq, fnArgs, fnOut>>
    \/ /\ \E d \in DefaultChoices, inputs \in NamedChoices : Execute(d, inputs)
       /\ UNCHANGED <<keySeq, fnArgs, fnOut>>

Spec == Init /\ [][Next]_vars

\* the buffer a source node yields when it is resolved
SourceBuffer(n) ==
    IF n.kind = "TextInputNode" THEN TextInputProcess(n.props).out
    ELSE HexInputProcess(n.props).out

\* C4: in every call execute(data, **inputs) that returns, each source node
\* named by a keyword argument yields that argument's bytes when the sinks are
\* resolved, also when default bytes are passed in the same call.
C4_NamedInputsAuthoritative ==
    [][\A d \in DefaultChoices, inputs \in NamedChoices :
           (Execute(d, inputs) /\ ret'.err = "none") =>
               \A k \in 1..Len(inputs) :
                   LET i == InputNodeIndex(nodes, Replace(inputs[k].name, 95, 32))
                   IN  SourceBuffer(nodes'[i]) = inputs[k].data]_vars

(***************************************************************************)
(* SpecKeys: a wired transform with an optional key (and iv) port.  The     *)
(* data comes from the text node; the key and iv ports are connected to and *)
(* disconnected from the hex node and the repeated text.                    *)
(***************************************************************************)
KeyKinds == {"XORNode", "RC4Node", "AESNode"}

\* ids, in creation order: text 1, hex 2, repeat 3, transform 4, sink 5
KeysNodes(kind) ==
    CreateNodeOn(CreateNodeOn(CreateNodeOn(CreateNodeOn(CreateNodeOn(<<>>,
        "TextInputNode", N_MyIn), "HexInputNode", N_Key), "RepeatNode", N_Rep),
        kind, N_X), "OutputNode", N_Out)

KeysConns ==
    ConnectOn(ConnectOn(ConnectOn({}, 1, "output", 4, "data"), 1, "output", 3, "data"),
              4, "output", 5, "input")

InitKeys ==
    /\ \E kind \in KeyKinds : nodes = KeysNodes(kind)
    /\ conns = KeysConns
    /\ ret = Returned("init", "none", NoResults)
    /\ keySeq = 0
    /\ fnArgs = <<>>
    /\ fnOut = <<>>

\* the observer's step on a call
KeySeqAfter(call, seq) ==
    CASE call = "connect" -> 1
      [] call = "disconnect" -> (IF seq = 2 THEN 3 ELSE 0)
      [] call = "execute" -> (IF seq \in {1, 3} THEN seq + 1 ELSE seq)
      [] OTHER -> seq

KeysSetProperty(i, prop, val) ==
    /\ SetProperty(i, prop, val)
    /\ UNCHANGED <<keySeq, fnArgs, fnOut>>

KeysConnect(src, dport) ==
    /\ Connect(src, "output", 4, dport)
    /\ keySeq' = (IF dport = "key" THEN KeySeqAfter("connect", keySeq) ELSE keySeq)
    /\ UNCHANGED <<fnArgs, fnOut>>

KeysDisconnect(c) ==
    /\ c.dport \in {"key", "iv"}
    /\ Disconnect(c)
    /\ keySeq' = (IF c.dport = "key" THEN KeySeqAfter("disconnect", keySeq) ELSE keySeq)
    /\ UNCHANGED <<fnArgs, fnOut>>

KeysExecute ==
    /\ Execute(None, <<>>)
    /\ keySeq' = KeySeqAfter("execute", keySeq)
    /\ UNCHANGED <<fnArgs, fnOut>>

NextKeys ==
    \/ \E i \in 2..4 : \E prop \in DOMAIN nodes[i].props :
          \E val \in PropChoices(nodes[i].kind, prop) : KeysSetProperty(i, prop, val)
    \/ \E src \in {2, 3}, dport \in {"key", "iv"} : KeysConnect(src, dport)
    \/ \E c \in conns : KeysDisconnect(c)
    \/ KeysExecute

SpecKeys == InitKeys /\ [][NextKeys]_vars

\* C1: execute returns a mapping and never raises.
C1_ExecuteNeverRaises == ret.op = "execute" => ret.err = "none"

\* the hex property a key or iv port shadows (PORT_TO_PROPERTY)
ShadowedBy(port) == IF port = "key" THEN "key_hex" ELSE "iv_hex"

PortConnected(cs, id, port) == \E c \in cs : c.dst = id /\ c.dport = port

\* what execute() gives when the property prop of node i holds val
Outcome(r) == <<r.err, r.results>>

OutcomeWith(ns, cs, i, prop, val) ==
    Outcome(ExecuteOn(SetProp(ns, i, prop, val), cs, None, <<>>))

\* a resolve step of SpecKeys; the first conjuncts, which KeysExecute implies,
\* tell the other steps apart before execute is evaluated
KeysResolve ==
    /\ conns' = conns
    /\ \A i \in 1..4 : nodes'[i] = nodes[i]
    /\ KeysExecute

\* C2, as stated: whenever the key (or iv) port of the transform is connected,
\* what execute gives does not depend on the shadowed key_hex (iv_hex)
\* property, whatever buffer the upstream node produces.
C2_ConnectedPortAlwaysWins ==
    [][KeysResolve =>
          \A port \in InPorts(nodes[4].kind) \ {"data"} :
              PortConnected(conns, 4, port) =>
                  \A val \in PropChoices(nodes[4].kind, ShadowedBy(port)) :
                      OutcomeWith(nodes, conns, 4, ShadowedBy(port), val)
                          = <<ret'.err, ret'.results>>]_vars

\* C2, amended: whenever the key (or iv) port of the transform is connected
\* and the buffer resolved from it is not empty, what execute gives does not
\* depend on the shadowed key_hex (iv_hex) property.
C2_NonEmptyPortWins ==
    [][KeysResolve =>
          \A port \in InPorts(nodes[4].kind) \ {"data"} :
              (/\ PortConnected(conns, 4, port)
               /\ GetInputData(nodes, conns, 4, port, MaxDepth(nodes)).out # <<>>) =>
                  \A val \in PropChoices(nodes[4].kind, ShadowedBy(port)) :
                      OutcomeWith(nodes, conns, 4, ShadowedBy(port), val)
                          = <<ret'.err, ret'.results>>]_vars

\* a resolve that used the key port's buffer 'Hello' while key_hex was 'ff':
\* 'Hello' XOR 'Hello' is five zero bytes
C2_Witness ==
    /\ nodes[4].kind = "XORNode"
    /\ keySeq = 2
    /\ [src |-> 2, sport |-> "output", dst |-> 4, dport |-> "key"] \in conns
    /\ nodes[2].props["hex_data"] = S_HelloHex
    /\ nodes[4].props["key_hex"] = S_ff
    /\ ret.op = "execute"
    /\ ret.results[N_Out] = <<0, 0, 0, 0, 0>>

\* C3: after connect(key) ; resolve ; disconnect(key) on an XOR node, the next
\* resolve yields the data XOR the key parsed from key_hex (the byte 00 when
\* key_hex is malformed), whatever the key port had been connected to.
C3_DisconnectRestoresParameter ==
    [][(keySeq = 3 /\ nodes[4].kind = "XORNode" /\ KeysResolve) =>
          LET p == FromHex(Remove(nodes[4].props["key_hex"], 32))
              key == IF p.ok THEN p.bytes ELSE <<0>>
              data == Utf8Encode(nodes[1].props["text_data"])
          IN  /\ ret'.err = "none"
              /\ ret'.results[N_Out] =
                    [i \in 1..Len(data) |-> BitXor(data[i], key[((i - 1) % Len(key)) + 1])]]_vars

\* the sequence has run with the key 'Hello' on the hex node and key_hex 'ff':
\* the sink holds 'Hello' XOR ff
C3_Witness ==
    /\ nodes[4].kind = "XORNode"
    /\ keySeq = 4
    /\ ~PortConnected(conns, 4, "key")
    /\ nodes[2].props["hex_data"] = S_HelloHex
    /\ nodes[4].props["key_hex"] = S_ff
    /\ ret.op = "execute"
    /\ ret.results[N_Out] = <<183, 154, 147, 147, 144>>

(***************************************************************************)
(* SpecXOR: XOR nodes over drawn buffers.  The hex node 'In' yields the     *)
(* data d, the hex node 'Key' the buffer k; two XOR nodes are chained, with *)
(* the same key_hex and, when wired, the same key port source; the sink     *)
(* 'Once' reads the first XOR node and the sink 'Twice' the second.         *)
(***************************************************************************)
MaxLen == 2

ByteChoices == {0, 65, 255}

Bufs == UNION {[1..n -> ByteChoices] : n \in 0..MaxLen}

S_41_ff == <<52, 49, 32, 102, 102>>     \* '41 ff'

KeyHexChoices == {S_00, S_ff, S_41_ff, S_zz, <<>>}

N_In == <<73, 110>>                     \* 'In'
N_X1 == <<88, 49>>                      \* 'X1'
N_X2 == <<88, 50>>                      \* 'X2'
N_Once == <<79, 110, 99, 101>>          \* 'Once'
N_Twice == <<84, 119, 105, 99, 101>>    \* 'Twice'

\* ids, in creation order: In 1, Key 2, X1 3, X2 4, Once 5, Twice 6
XorNodes(d, k, key_hex) ==
    LET created == CreateNodeOn(CreateNodeOn(CreateNodeOn(CreateNodeOn(CreateNodeOn(
                       CreateNodeOn(<<>>, "HexInputNode", N_In), "HexInputNode", N_Key),
                       "XORNode", N_X1), "XORNode", N_X2), "OutputNode", N_Once),
                       "OutputNode", N_Twice)
    IN  SetProp(SetProp(SetProp(SetProp(created, 1, "hex_data", ToHex(d)),
                2, "hex_data", ToHex(k)), 3, "key_hex", key_hex), 4, "key_hex", key_hex)

XorConns(wired) ==
    LET data == ConnectOn(ConnectOn(ConnectOn(ConnectOn({}, 1, "output", 3, "data"),
                    3, "output", 4, "data"), 3, "output", 5, "input"), 4, "output", 6, "input")
    IN  IF wired THEN ConnectOn(ConnectOn(data, 2, "output", 3, "key"), 2, "output", 4, "key")
        ELSE data

InitXOR ==
    /\ fnArgs \in [d : Bufs, k : Bufs, wired : BOOLEAN, key_hex : KeyHexChoices]
    /\ nodes = XorNodes(fnArgs.d, fnArgs.k, fnArgs.key_hex)
    /\ conns = XorConns(fnArgs.wired)
    /\ ret = Returned("init", "none", NoResults)
    /\ keySeq = 0
    /\ fnOut = <<>>

XorExecute ==
    /\ ret.op = "init"
    /\ Execute(None, <<>>)
    /\ UNCHANGED <<keySeq, fnArgs, fnOut>>

NextXOR == XorExecute

SpecXOR == InitXOR /\ [][NextXOR]_vars

\* the key the drawn inputs give the XOR nodes: the buffer k when the key
\* ports are wired and k is not empty, else the bytes key_hex spells
XorKeyParses == FromHex(Remove(fnArgs.key_hex, 32)).ok

XorKeyGiven ==
    IF fnArgs.wired /\ fnArgs.k # <<>> THEN fnArgs.k
    ELSE FromHex(Remove(fnArgs.key_hex, 32)).bytes

XorKeyStated == (fnArgs.wired /\ fnArgs.k # <<>>) \/ XorKeyParses

\* C9: the XOR node's output is empty when the data or the key is empty;
\* otherwise it is as long as the data d and its byte i (from 0) is
\* d[i] XOR key[i mod len(key)], the key being the key port's buffer if that
\* is not empty and the bytes parsed from key_hex otherwise.
C9_RepeatingKeyXor ==
    (ret.op = "execute" /\ XorKeyStated) =>
        /\ ret.err = "none"
        /\ Len(ret.results[N_Once]) =
              (IF fnArgs.d = <<>> \/ XorKeyGiven = <<>> THEN 0 ELSE Len(fnArgs.d))
        /\ \A i \in 0..(Len(ret.results[N_Once]) - 1) :
              ret.results[N_Once][i + 1] =
                  BitXor(fnArgs.d[i + 1], XorKeyGiven[(i % Len(XorKeyGiven)) + 1])

\* two bytes of data under the two-byte key port buffer, key_hex being 'ff'
C9_Witness ==
    /\ ret.op = "execute"
    /\ fnArgs.d = <<65, 255>>
    /\ fnArgs.wired /\ fnArgs.k = <<255, 65>>
    /\ fnArgs.key_hex = S_ff
    /\ ret.results[N_Once] = <<190, 190>>

\* C10: for a non-empty buffer b and a non-empty key k, two chained XOR nodes
\* with the key k give b back.
C10_XorInvolution ==
    (ret.op = "execute" /\ XorKeyStated /\ fnArgs.d # <<>> /\ XorKeyGiven # <<>>) =>
        ret.results[N_Twice] = fnArgs.d

\* two bytes through both XOR nodes under the key '41 ff' of key_hex
C10_Witness ==
    /\ ret.op = "execute"
    /\ fnArgs.d = <<0, 65>>
    /\ ~fnArgs.wired
    /\ fnArgs.key_hex = S_41_ff
    /\ ret.results[N_Once] = <<65, 190>>
    /\ ret.results[N_Twice] = <<0, 65>>

(***************************************************************************)
(* SpecParams: one transform between the hex node 'In' and the sink 'Out',  *)
(* with one of its integer or hex properties holding a text that does not   *)
(* parse.                                                                   *)
(***************************************************************************)
S_f == <<102>>                          \* 'f'
S_1p5 == <<49, 46, 53>>                 \* '1.5'

HexProps == {"key_hex", "iv_hex"}

\* the property of a kind that is drawn, with the combo item the node is in
\* (<<>> for a kind without a mode)
ParamCases ==
    {[kind |-> "XORNode", prop |-> "key_hex", mode |-> <<>>],
     [kind |-> "RC4Node", prop |-> "key_hex", mode |-> <<>>],
     [kind |-> "ROTNode", prop |-> "shift", mode |-> <<>>],
     [kind |-> "SubstringNode", prop |-> "start", mode |-> <<>>],
     [kind |-> "SubstringNode", prop |-> "end", mode |-> <<>>],
     [kind |-> "RepeatNode", prop |-> "count", mode |-> <<>>]}
    \cup [kind : {"AESNode"}, prop : HexProps, mode : {S_CBC_Encrypt, S_CTR}]
    \cup [kind : {"TakeBytesNode"}, prop : {"start", "param2"},
          mode : {S_Start_Length, S_Start_End}]

\* texts that int() or bytes.fromhex() rejects
Malformed(prop) == IF prop \in HexProps THEN {S_zz, S_f} ELSE {S_zz, S_1p5}

\* ids, in creation order: In 1, X 2, Out 3
ParamNodes(case, val, d) ==
    LET created == CreateNodeOn(CreateNodeOn(CreateNodeOn(<<>>, "HexInputNode", N_In),
                       case.kind, N_X), "OutputNode", N_Out)
        moded == IF case.mode = <<>> THEN created ELSE SetProp(created, 2, "mode", case.mode)
    IN  SetProp(SetProp(moded, 1, "hex_data", ToHex(d)), 2, case.prop, val)

ParamConns == ConnectOn(ConnectOn({}, 1, "output", 2, "data"), 2, "output", 3, "input")

InitParams ==
    /\ fnArgs \in {a \in [case : ParamCases, val : {S_zz, S_f, S_1p5}, d : Bufs] :
                      a.val \in Malformed(a.case.prop)}
    /\ nodes = ParamNodes(fnArgs.case, fnArgs.val, fnArgs.d)
    /\ conns = ParamConns
    /\ ret = Returned("init", "none", NoResults)
    /\ keySeq = 0
    /\ fnOut = <<>>

ParamsExecute ==
    /\ ret.op = "init"
    /\ Execute(None, <<>>)
    /\ UNCHANGED <<keySeq, fnArgs, fnOut>>

NextParams == ParamsExecute

SpecParams == InitParams /\ [][NextParams]_vars

\* what execute gives when the drawn property holds its catalog default
WithDefault ==
    Outcome(ExecuteOn(ParamNodes(fnArgs.case, DefaultProps(fnArgs.case.kind)[fnArgs.case.prop],
                                 fnArgs.d), ParamConns, None, <<>>))

\* C7: with a malformed integer or hex property execute does not raise and
\* the node's output is the output under the property's catalog default.
C7_MalformedFallsBackToDefault ==
    ret.op = "execute" => (ret.err = "none" /\ <<ret.err, ret.results>> = WithDefault)

(***************************************************************************)
(* SpecMD5: the MD5 node between the hex node 'In' and the sink 'Out'; the  *)
(* format is switched and the sink resolved in any order.                   *)
(***************************************************************************)
\* message lengths around the padding's block boundaries
MD5Lengths == {55, 56, 64, 119, 120, 128}

MD5Messages == Bufs \cup {[i \in 1..n |-> 97] : n \in MD5Lengths}

\* ids, in creation order: In 1, X 2, Out 3
MD5Nodes(d, format) ==
    SetProp(SetProp(CreateNodeOn(CreateNodeOn(CreateNodeOn(<<>>, "HexInputNode", N_In),
                "MD5Node", N_X), "OutputNode", N_Out), 1, "hex_data", ToHex(d)),
            2, "format", format)

MD5Conns == ConnectOn(ConnectOn({}, 1, "output", 2, "data"), 2, "hash", 3, "input")

InitMD5 ==
    /\ fnArgs \in [d : MD5Messages]
    /\ \E format \in {S_Hex, S_Raw} : nodes = MD5Nodes(fnArgs.d, format)
    /\ conns = MD5Conns
    /\ ret = Returned("init", "none", NoResults)
    /\ keySeq = 0
    /\ fnOut = <<>>

MD5SetFormat(format) ==
    /\ SetProperty(2, "format", format)
    /\ UNCHANGED <<keySeq, fnArgs, fnOut>>

MD5Execute ==
    /\ Execute(None, <<>>)
    /\ UNCHANGED <<keySeq, fnArgs, fnOut>>

NextMD5 ==
    \/ \E format \in {S_Hex, S_Raw} : MD5SetFormat(format)
    \/ MD5Execute

SpecMD5 == InitMD5 /\ [][NextMD5]_vars

\* 'd41d8cd98f00b204e9800998ecf8427e'
S_MD5_Empty ==
    <<100, 52, 49, 100, 56, 99, 100, 57, 56, 102, 48, 48, 98, 50, 48, 52,
      101, 57, 56, 48, 48, 57, 57, 56, 101, 99, 102, 56, 52, 50, 55, 101>>

\* C8: in Hex format every resolve gives the sink the ASCII-hex MD5 digest of
\* the input buffer, 32 characters; for the empty buffer that is
\* d41d8cd98f00b204e9800998ecf8427e.
C8_MD5HexOfEveryInput ==
    [][(nodes[2].props["format"] = S_Hex /\ MD5Execute) =>
          /\ ret'.err = "none"
          /\ ret'.results[N_Out] = ToHex(MD5Digest(fnArgs.d))
          /\ fnArgs.d = <<>> => ret'.results[N_Out] = S_MD5_Empty]_vars

(***************************************************************************)
(* SpecInputs: the graph of test_set_inputs with a hex node beside the text *)
(* node, each wired straight into a sink of its own.  Every step is a call  *)
(* of set_input, set_inputs or execute; fnArgs holds the arguments of the   *)
(* last call and fnOut what the calls so far have set on each source node.  *)
(***************************************************************************)
N_T == <<84>>                           \* 'T'
N_H == <<72>>                           \* 'H'
S_e_acute == <<195, 169>>               \* the UTF-8 bytes of U+00E9

\* ids, in creation order: text 'My In' 1, hex 'Key' 2, sink 'T' 3, sink 'H' 4
InputsNodes ==
    CreateNodeOn(CreateNodeOn(CreateNodeOn(CreateNodeOn(<<>>, "TextInputNode", N_MyIn),
        "HexInputNode", N_Key), "OutputNode", N_T), "OutputNode", N_H)

InputsConns == ConnectOn(ConnectOn({}, 1, "output", 3, "input"), 2, "output", 4, "input")

\* the bytes the calls are given
InputBufs == {<<>>, <<65>>, <<0, 255>>, S_e_acute, <<255>>}

\* the set_input calls: every buffer on the two source nodes, one buffer on a
\* name no node has, on a keyword spelling and on the name of a sink
InputsSetCalls == ({N_MyIn, N_Key} \X InputBufs) \cup ({N_Nope, N_My_In, N_T} \X {<<65>>})

InputsDefaults == {None, Some(<<67>>), Some(<<255>>)}

InputsNamed ==
    { <<>>,
      << [name |-> N_My_In, data |-> S_e_acute] >>,
      << [name |-> N_Key, data |-> <<0, 255>>] >>,
      << [name |-> N_My_In, data |-> <<65>>], [name |-> N_Key, data |-> <<255>>] >>,
      << [name |-> N_Key, data |-> <<65>>], [name |-> N_Nope, data |-> <<65>>] >> }

\* the sink each source node is wired into
SinkOf(node_name) == IF node_name = N_MyIn THEN N_T ELSE N_H

\* the observer: the buffer last set on each source node (None before any
\* set and after a call that set it twice or raised) and the number of
\* executes that returned since, counted up to 2
NothingSet == [nm \in {N_MyIn, N_Key} |-> [set |-> None, runs |-> 0]]

\* the names of nodes the keyword arguments address
Addressed(inputs) == {Replace(inputs[k].name, 95, 32) : k \in 1..Len(inputs)}

NamedData(inputs, nm) ==
    inputs[CHOOSE k \in 1..Len(inputs) : Replace(inputs[k].name, 95, 32) = nm].data

ObservedAfterSet(seen, nm, data, err) ==
    [x \in DOMAIN seen |->
        IF x # nm THEN seen[x]
        ELSE [set |-> IF err = "none" THEN Some(data) ELSE None, runs |-> 0]]

ObservedAfterExecute(seen, data, inputs, err) ==
    [x \in DOMAIN seen |->
        LET named == x \in Addressed(inputs)
            first == x = N_MyIn /\ data # None
        IN  IF err # "none" THEN (IF named \/ first THEN [set |-> None, runs |-> 0] ELSE seen[x])
            ELSE IF named /\ first THEN [set |-> None, runs |-> 0]
            ELSE IF named THEN [set |-> Some(NamedData(inputs, x)), runs |-> 1]
            ELSE IF first THEN [set |-> Some(data[1]), runs |-> 1]
            ELSE [set |-> seen[x].set, runs |-> IF seen[x].runs < 2 THEN seen[x].runs + 1 ELSE 2]]

InitInputs ==
    /\ nodes = InputsNodes
    /\ conns = InputsConns
    /\ ret = Returned("init", "none", NoResults)
    /\ keySeq = 0
    /\ fnArgs = [name |-> <<>>, data |-> None, inputs |-> <<>>]
    /\ fnOut = NothingSet

InputsSetInput(node_name, data) ==
    /\ SetInput(node_name, data)
    /\ fnArgs' = [name |-> node_name, data |-> Some(data), inputs |-> <<>>]
    /\ fnOut' = ObservedAfterSet(fnOut, node_name, data, ret'.err)
    /\ UNCHANGED keySeq

\* Pipeline.set_inputs(**inputs)
InputsSetInputs(inputs) ==
    /\ Returns("set_inputs", ReturnsNone(SetInputsFrom(nodes, inputs, 1)))
    /\ fnArgs' = [name |-> <<>>, data |-> None, inputs |-> inputs]
    /\ fnOut' = [x \in DOMAIN fnOut |->
                    IF x \notin Addressed(inputs) THEN fnOut[x]
                    ELSE ObservedAfterSet(fnOut, x, NamedData(inputs, x), ret'.err)[x]]
    /\ UNCHANGED keySeq

InputsExecute(data, inputs) ==
    /\ Execute(data, inputs)
    /\ fnArgs' = [name |-> <<>>, data |-> data, inputs |-> inputs]
    /\ fnOut' = ObservedAfterExecute(fnOut, data, inputs, ret'.err)
    /\ UNCHANGED keySeq

NextInputs ==
    \/ \E call \in InputsSetCalls : InputsSetInput(call[1], call[2])
    \/ \E inputs \in InputsNamed \ {<<>>} : InputsSetInputs(inputs)
    \/ \E d \in InputsDefaults, inputs \in InputsNamed : InputsExecute(d, inputs)

SpecInputs == InitInputs /\ [][NextInputs]_vars

\* C11: once a call has set the buffer b on a source node (set_input, a named
\* input, or the default bytes of execute on the first text node; any bytes
\* for the hex node, valid UTF-8 for the text node), every execute that
\* returns gives the sink wired to that node exactly b, until the node is set
\* again.
C11_SetInputPersists ==
    (ret.op = "execute" /\ ret.err = "none") =>
        \A nm \in DOMAIN fnOut :
            fnOut[nm].set # None => ret.results[SinkOf(nm)] = fnOut[nm].set[1]

\* the bytes 00 ff set on the hex node have come out of two executes, the
\* second of which set U+00E9 on the text node
C11_Witness ==
    /\ ret.op = "execute" /\ ret.err = "none"
    /\ fnOut[N_Key] = [set |-> Some(<<0, 255>>), runs |-> 2]
    /\ fnOut[N_MyIn] = [set |-> Some(S_e_acute), runs |-> 1]
    /\ ret.results[N_H] = <<0, 255>>
    /\ ret.results[N_T] = S_e_acute

\* C12: after an execute that returns, each keyword argument has set the
\* source node named by the keyword with '_' replaced by ' ', and the sink
\* wired to that node holds the argument's bytes.
C12_NamedInputsReachSinks ==
    (ret.op = "execute" /\ ret.err = "none") =>
        \A k \in 1..Len(fnArgs.inputs) :
            ret.results[SinkOf(Replace(fnArgs.inputs[k].name, 95, 32))] = fnArgs.inputs[k].data

\* C13: a set_input whose name is the name of no Hex, Text or File Input node
\* raises KeyError and leaves every node as it was.
C13_UnknownNameRaisesKeyError ==
    [][(/\ ret'.op = "set_input"
        /\ ~\E i \in 1..Len(nodes) :
               nodes[i].kind \in SourceKinds /\ nodes[i].name = fnArgs'.name) =>
           (ret'.err = "KeyError" /\ nodes' = nodes)]_vars

\* set_input('T', ...) has raised KeyError: 'T' names a sink
C13_Witness ==
    /\ ret.op = "set_input"
    /\ fnArgs.name = N_T
    /\ ret.err = "KeyError"

(***************************************************************************)
(* SpecFan: the graph of test_multiple_outputs.  The output port of the     *)
(* text node 'In' fans out to a Base64 node and a Reverse node, each read   *)
(* by a sink of its own.                                                    *)
(***************************************************************************)
N_B == <<66>>                           \* 'B'
N_R == <<82>>                           \* 'R'
S_Test == <<84, 101, 115, 116>>         \* 'Test'
S_QQpad == <<81, 81, 61, 61>>           \* 'QQ=='

\* ids, in creation order: In 1, Base64 2, Reverse 3, sink 'B' 4, sink 'R' 5
FanNodes ==
    CreateNodeOn(CreateNodeOn(CreateNodeOn(CreateNodeOn(CreateNodeOn(<<>>,
        "TextInputNode", N_In), "Base64Node", N_X1), "ReverseNode", N_X2),
        "OutputNode", N_B), "OutputNode", N_R)

FanConns ==
    ConnectOn(ConnectOn(ConnectOn(ConnectOn({}, 1, "output", 2, "data"),
        1, "output", 3, "data"), 2, "output", 4, "input"), 3, "output", 5, "input")

\* the default bytes execute is given
FanDefaults == {None} \cup {Some(x) : x \in {<<>>, <<65>>, S_Test, S_QQpad, S_e_acute, <<65, 66>>}}

InitFan ==
    /\ nodes = FanNodes
    /\ conns = FanConns
    /\ ret = Returned("init", "none", NoResults)
    /\ keySeq = 0
    /\ fnArgs = <<>>
    /\ fnOut = <<>>

FanSetMode(mode) ==
    /\ SetProperty(2, "mode", mode)
    /\ UNCHANGED <<keySeq, fnArgs, fnOut>>

FanSetInput(data) ==
    /\ SetInput(N_In, data)
    /\ UNCHANGED <<keySeq, fnArgs, fnOut>>

FanExecute(data) ==
    /\ Execute(data, <<>>)
    /\ UNCHANGED <<keySeq, fnArgs, fnOut>>

NextFan ==
    \/ \E mode \in {S_Encode, S_Decode} : FanSetMode(mode)
    \/ \E d \in FanDefaults \ {None} : FanSetInput(d[1])
    \/ \E d \in FanDefaults : FanExecute(d)

SpecFan == InitFan /\ [][NextFan]_vars

\* C14: execute returns one entry per sink, keyed by the sink's name; with
\* the text node's buffer b fanned out to the Base64 and the Reverse node,
\* the sink behind Base64 holds the Base64 node's output on b and the sink
\* behind Reverse holds b reversed.
C14_OneEntryPerSinkOwnBranch ==
    [][\A d \in FanDefaults : FanExecute(d) =>
          LET b == SourceBuffer(nodes'[1])
          IN  /\ ret'.err = "none"
              /\ DOMAIN ret'.results = {N_B, N_R}
              /\ ret'.results[N_B] = Base64Process(b, nodes[2].props).out
              /\ ret'.results[N_R] = [i \in 1..Len(b) |-> b[Len(b) + 1 - i]]]_vars

\* the run of the test: 'Test' gives 'VGVzdA==' and 'tseT'
C14_Witness ==
    /\ ret.op = "execute"
    /\ nodes[1].props["text_data"] = S_Test
    /\ ret.results[N_B] = <<86, 71, 86, 122, 100, 65, 61, 61>>
    /\ ret.results[N_R] = <<116, 115, 101, 84>>

(***************************************************************************)
(* SpecTake: the Take Bytes node in Start + Length mode between the hex     *)
(* node 'In' and the sink 'Out', over drawn buffers, starts and lengths.    *)
(***************************************************************************)
S_abcdefghij == <<97, 98, 99, 100, 101, 102, 103, 104, 105, 106>>

\* buffers of 0, 1, 3 and 10 bytes
TakeBufs == {SubSeq(S_abcdefghij, 1, n) : n \in {0, 1, 3, 10}}

TakeStarts == {-11, -5, -4, -3, -1, 0, 1, 3, 10, 11}

TakeLengths == {0, 1, 3, 5}

\* the decimal text of an integer
SignedText(i) == IF i < 0 THEN <<45>> \o IntToText(0 - i) ELSE IntToText(i)

\* ids, in creation order: In 1, X 2, Out 3
TakeNodes(d, s, l) ==
    SetProp(SetProp(SetProp(CreateNodeOn(CreateNodeOn(CreateNodeOn(<<>>,
        "HexInputNode", N_In), "TakeBytesNode", N_X), "OutputNode", N_Out),
        1, "hex_data", ToHex(d)), 2, "start", SignedText(s)), 2, "param2", SignedText(l))

InitTake ==
    /\ fnArgs \in [d : TakeBufs, s : TakeStarts, l : TakeLengths]
    /\ nodes = TakeNodes(fnArgs.d, fnArgs.s, fnArgs.l)
    /\ conns = ParamConns
    /\ ret = Returned("init", "none", NoResults)
    /\ keySeq = 0
    /\ fnOut = <<>>

TakeExecute ==
    /\ ret.op = "init"
    /\ Execute(None, <<>>)
    /\ UNCHANGED <<keySeq, fnArgs, fnOut>>

NextTake == TakeExecute

SpecTake == InitTake /\ [][NextTake]_vars

\* the resolved start: s itself when s >= 0, n + s counted from the
\* end when s < 0, but not before offset 0
TakeResolvedStart ==
    IF fnArgs.s >= 0 THEN fnArgs.s
    ELSE IF Len(fnArgs.d) + fnArgs.s < 0 THEN 0 ELSE Len(fnArgs.d) + fnArgs.s

\* C17: in Start + Length mode, on a buffer of n bytes with start s and
\* length L >= 0, the output is the bytes at offsets [r, min(r + L, n)), r
\* being the resolved start.
C17_TakeBytesStartLength ==
    ret.op = "execute" =>
        LET n == Len(fnArgs.d)
            r == TakeResolvedStart
            hi == IF r + fnArgs.l < n THEN r + fnArgs.l ELSE n
        IN  /\ ret.err = "none"
            /\ ret.results[N_Out] = [i \in 1..(IF hi > r THEN hi - r ELSE 0) |-> fnArgs.d[r + i]]

(***************************************************************************)
(* SpecSink: the hex node 'In' wired straight into the sink 'Out'; buffers  *)
(* around the preview's 64 bytes are set on the hex node and the sink is    *)
(* processed in any order.                                                  *)
(***************************************************************************)
SinkLengths == {0, 1, 63, 64, 65, 130}

SinkBufs == {[i \in 1..n |-> (i * k) % 256] : n \in SinkLengths, k \in {1, 7}}

\* ids, in creation order: In 1, Out 2
SinkNodes == CreateNodeOn(CreateNodeOn(<<>>, "HexInputNode", N_In), "OutputNode", N_Out)

SinkConns == ConnectOn({}, 1, "output", 2, "input")

InitSink ==
    /\ nodes = SinkNodes
    /\ conns = SinkConns
    /\ ret = Returned("init", "none", NoResults)
    /\ keySeq = 0
    /\ fnArgs = <<>>
    /\ fnOut = <<>>

SinkSetInput(data) ==
    /\ SetInput(N_In, data)
    /\ UNCHANGED <<keySeq, fnArgs, fnOut>>

SinkExecute ==
    /\ Execute(None, <<>>)
    /\ UNCHANGED <<keySeq, fnArgs, fnOut>>

NextSink ==
    \/ \E d \in SinkBufs : SinkSetInput(d)
    \/ SinkExecute

SpecSink == InitSink /\ [][NextSink]_vars

\* the length property reads '<n> bytes'
LengthStates(text, n) ==
    /\ Len(text) > Len(S_bytes)
    /\ SubSeq(text, Len(text) - Len(S_bytes) + 1, Len(text)) = S_bytes
    /\ ParseInt(SubSeq(text, 1, Len(text) - Len(S_bytes))) = [ok |-> TRUE, val |-> n]

\* the first min(len, 64) bytes of a buffer
First64(b) == SubSeq(b, 1, IF Len(b) < 64 THEN Len(b) ELSE 64)

\* C18, as stated: after the sink is processed its cached buffer is the buffer
\* at its input port, its length property states that buffer's byte count and
\* its preview property holds the first min(len, 64) bytes and nothing more.
C18_SinkPreviewNothingMore ==
    [][SinkExecute =>
          LET b == SourceBuffer(nodes[1])
          IN  /\ nodes'[2].data = b
              /\ ret'.results[N_Out] = b
              /\ LengthStates(nodes'[2].props["length"], Len(b))
              /\ nodes'[2].props["preview"] = First64(b)]_vars

\* C18, amended: the preview property holds the first min(len, 64) bytes,
\* followed by '...' when the buffer is longer than 64 bytes.
C18_SinkPreviewEllipsis ==
    [][SinkExecute =>
          LET b == SourceBuffer(nodes[1])
          IN  /\ nodes'[2].data = b
              /\ ret'.results[N_Out] = b
              /\ LengthStates(nodes'[2].props["length"], Len(b))
              /\ nodes'[2].props["preview"] =
                    First64(b) \o (IF Len(b) > 64 THEN <<46, 46, 46>> ELSE <<>>)]_vars

\* the sink has been processed on a buffer of 65 bytes
C18_Witness ==
    /\ ret.op = "execute"
    /\ Len(nodes[2].data) = 65
    /\ nodes[2].props["length"] = <<54, 53>> \o S_bytes
    /\ Len(nodes[2].props["preview"]) = 67

(***************************************************************************)
(* SpecFail: a node that can fail inside process() (node 2), a Reverse node *)
(* downstream of it read by the sink 'Out', and beside them a Reverse node  *)
(* on the text node 'In' read by the sink 'R'.                              *)
(***************************************************************************)
S_Nope == <<110, 111, 112, 101>>        \* 'nope'
S_4142 == <<52, 49, 52, 50>>            \* '4142'
S_QUJD == <<81, 85, 74, 68>>            \* 'QUJD'
S_A16 == [i \in 1..16 |-> 65]           \* 'A' * 16

\* the node that can fail: its kind and the property that selects the case
FailCases ==
    {[kind |-> "Base64Node", prop |-> "mode", val |-> S_Decode],
     [kind |-> "HexEncodeNode", prop |-> "mode", val |-> S_Decode],
     [kind |-> "AESNode", prop |-> "mode", val |-> S_CBC_Decrypt],
     [kind |-> "AESNode", prop |-> "mode", val |-> S_ECB_Decrypt],
     [kind |-> "ZlibNode", prop |-> "mode", val |-> S_Decompress],
     [kind |-> "GzipNode", prop |-> "mode", val |-> S_Decompress],
     [kind |-> "FileInputNode", prop |-> "file_path", val |-> S_Nope],
     [kind |-> "FileInputNode", prop |-> "file_path", val |-> <<102>>]}

\* the texts set on 'In'
FailTexts == {<<81>>, S_zz, S_4142, S_QUJD, S_A16, S_e_acute}

\* ids, in creation order: In 1, the node that can fail 2, Reverse 3,
\* sink 'Out' 4, Reverse 5, sink 'R' 6
FailNodes(case) ==
    SetProp(CreateNodeOn(CreateNodeOn(CreateNodeOn(CreateNodeOn(CreateNodeOn(CreateNodeOn(<<>>,
        "TextInputNode", N_In), case.kind, N_X), "ReverseNode", N_X1), "OutputNode", N_Out),
        "ReverseNode", N_X2), "OutputNode", N_R), 2, case.prop, case.val)

\* a File Input node has no input port
FailConns(kind) ==
    LET tail == ConnectOn(ConnectOn(ConnectOn(ConnectOn({}, 2, "output", 3, "data"),
                    3, "output", 4, "input"), 1, "output", 5, "data"), 5, "output", 6, "input")
    IN  IF kind \in SourceKinds THEN tail ELSE ConnectOn(tail, 1, "output", 2, "data")

InitFail ==
    /\ fnArgs \in FailCases
    /\ nodes = FailNodes(fnArgs)
    /\ conns = FailConns(fnArgs.kind)
    /\ ret = Returned("init", "none", NoResults)
    /\ keySeq = 0
    /\ fnOut = <<>>

FailSetInput(data) ==
    /\ SetInput(N_In, data)
    /\ UNCHANGED <<keySeq, fnArgs, fnOut>>

FailExecute ==
    /\ Execute(None, <<>>)
    /\ UNCHANGED <<keySeq, fnArgs, fnOut>>

NextFail ==
    \/ \E d \in FailTexts : FailSetInput(d)
    \/ FailExecute

SpecFail == InitFail /\ [][NextFail]_vars

\* the library call inside node 2 fails on the buffer b
FailsOn(case, b) ==
    CASE case.kind = "Base64Node" -> ~Base64Decode(b).ok
      [] case.kind = "HexEncodeNode" -> ~FromHex(Remove(Remove(b, 32), 10)).ok
      [] case.kind = "AESNode" -> Len(b) % 16 # 0
      [] case.kind = "ZlibNode" -> TRUE
      [] case.kind = "GzipNode" -> TRUE
      [] case.kind = "FileInputNode" -> case.val \notin DOMAIN Files

\* C19: execute returns although node 2 fails; the sink 'R' of the other
\* branch holds its normal buffer, the text reversed; and when node 2 fails
\* its output is empty and so is what the Reverse node downstream gives 'Out'.
C19_FailureCaughtAtNode ==
    [][FailExecute =>
          LET b == SourceBuffer(nodes[1])
          IN  /\ ret'.err = "none"
              /\ DOMAIN ret'.results = {N_Out, N_R}
              /\ ret'.results[N_R] = [i \in 1..Len(b) |-> b[Len(b) + 1 - i]]
              /\ FailsOn(fnArgs, b) =>
                    /\ GetOutputData(nodes, conns, 2, "output", MaxDepth(nodes)) = Ok(<<>>)
                    /\ ret'.results[N_Out] = <<>>]_vars

\* a Base64 decode of 'Q' has failed while 'R' received 'Q'
C19_Witness ==
    /\ fnArgs.kind = "Base64Node"
    /\ nodes[1].props["text_data"] = <<81>>
    /\ ret.op = "execute" /\ ret.err = "none"
    /\ ret.results[N_Out] = <<>>
    /\ ret.results[N_R] = <<81>>

(***************************************************************************)
(* SpecROT: two chained ROT nodes with the same shift over drawn buffers;   *)
(* the sink 'Once' reads the first and the sink 'Twice' the second.         *)
(***************************************************************************)
\* bytes at the edges of the two letter ranges
RotBytes == {64, 65, 78, 90, 91, 97, 122, 123, 255}

RotBufs == UNION {[1..n -> RotBytes] : n \in 0..MaxLen}

\* the shifts drawn: None leaves the property at its catalog default
RotShifts == {None, Some(13), Some(0), Some(1), Some(27), Some(-1)}

\* ids, in creation order: In 1, X1 2, X2 3, Once 4, Twice 5
RotNodes(d, shift) ==
    LET created == SetProp(CreateNodeOn(CreateNodeOn(CreateNodeOn(CreateNodeOn(CreateNodeOn(<<>>,
                       "HexInputNode", N_In), "ROTNode", N_X1), "ROTNode", N_X2),
                       "OutputNode", N_Once), "OutputNode", N_Twice), 1, "hex_data", ToHex(d))
    IN  IF shift = None THEN created
        ELSE SetProp(SetProp(created, 2, "shift", SignedText(shift[1])),
                     3, "shift", SignedText(shift[1]))

RotConns ==
    ConnectOn(ConnectOn(ConnectOn(ConnectOn({}, 1, "output", 2, "data"),
        2, "output", 3, "data"), 2, "output", 4, "input"), 3, "output", 5, "input")

InitROT ==
    /\ fnArgs \in [d : RotBufs, shift : RotShifts]
    /\ nodes = RotNodes(fnArgs.d, fnArgs.shift)
    /\ conns = RotConns
    /\ ret = Returned("init", "none", NoResults)
    /\ keySeq = 0
    /\ fnOut = <<>>

RotExecute ==
    /\ ret.op = "init"
    /\ Execute(None, <<>>)
    /\ UNCHANGED <<keySeq, fnArgs, fnOut>>

NextROT == RotExecute

SpecROT == InitROT /\ [][NextROT]_vars

\* the shift in force, mod 26: 13 when the property was left at its default
RotShiftGiven == IF fnArgs.shift = None THEN 13 ELSE fnArgs.shift[1] % 26

\* the letter k places after the letter c, wrapping within c's case
RotLetter(c, first, k) == first + ((c - first + k) % 26)

\* C20: the ROT node shifts each ASCII letter by (shift mod 26) within its own
\* case and passes every other byte through; the shift defaults to 13; and
\* with shift 13 two ROT nodes in a row give every buffer back.
C20_Rot13Involution ==
    ret.op = "execute" =>
        /\ ret.err = "none"
        /\ Len(ret.results[N_Once]) = Len(fnArgs.d)
        /\ \A i \in 1..Len(fnArgs.d) :
              ret.results[N_Once][i] =
                  (IF fnArgs.d[i] \in 65..90 THEN RotLetter(fnArgs.d[i], 65, RotShiftGiven)
                   ELSE IF fnArgs.d[i] \in 97..122 THEN RotLetter(fnArgs.d[i], 97, RotShiftGiven)
                   ELSE fnArgs.d[i])
        /\ RotShiftGiven = 13 => ret.results[N_Twice] = fnArgs.d

\* 'z@' under the default shift: 'm@' once, 'z@' twice
C20_Witness ==
    /\ ret.op = "execute"
    /\ fnArgs = [d |-> <<122, 64>>, shift |-> None]
    /\ ret.results[N_Once] = <<109, 64>>
    /\ ret.results[N_Twice] = <<122, 64>>

(***************************************************************************)
(* The engine with its bookkeeping kept: every node's _output_data, the     *)
(* process() runs in the order they start and the get_output_data calls     *)
(* made on every node (base.py).  A trace tr is [store, log, calls]:        *)
(* store[id] is None while nothing is assigned to the node's output port,   *)
(* Some(buffer) afterwards.  A traced result is [err, out, tr].             *)
(***************************************************************************)
\* ByteFlowNode.__init__ of every node, and no call made yet
NoTrace(ns) ==
    [store |-> [id \in Ids(ns) |-> None], log |-> <<>>, calls |-> [id \in Ids(ns) |-> 0]]

\* set_output_data keeps no buffer that is empty
TSetOutputData_SkipsEmpty(n, r, tr) ==
    IF r.err # "none" THEN [err |-> r.err, out |-> <<>>, tr |-> tr]
    ELSE [err |-> "none", out |-> <<>>,
          tr |-> IF r.out = <<>> THEN tr ELSE [tr EXCEPT !.store[n.id] = Some(r.out)]]

\* the set_output_data call that ends a process() whose body gave r
TSetOutputData(n, r, tr) ==
    IF r.err # "none" THEN [err |-> r.err, out |-> <<>>, tr |-> tr]
    ELSE [err |-> "none", out |-> <<>>, tr |-> [tr EXCEPT !.store[n.id] = Some(r.out)]]

\* a get_output_data that skips process() once the port holds a buffer;
\* tr is the trace the call began with, p what process() gives
TStored_Memo(n, port_name, tr, p) ==
    IF port_name \in OutPorts(n.kind) /\ tr.store[n.id] # None
    THEN [err |-> "none", out |-> tr.store[n.id][1], tr |-> tr]
    ELSE IF p.err # "none" THEN p
    ELSE [err |-> "none",
          out |-> IF port_name \in OutPorts(n.kind) /\ p.tr.store[n.id] # None
                  THEN p.tr.store[n.id][1] ELSE <<>>,
          tr |-> p.tr]

\* get_output_data after self.process() has given p:
\* self._output_data.get(port_name, b'')
TStored(n, port_name, tr, p) ==
    IF p.err # "none" THEN p
    ELSE [err |-> "none",
          out |-> IF port_name \in OutPorts(n.kind) /\ p.tr.store[n.id] # None
                  THEN p.tr.store[n.id][1] ELSE <<>>,
          tr |-> p.tr]

RECURSIVE TGetOutputData(_, _, _, _, _, _)
RECURSIVE TGetInputData(_, _, _, _, _, _)
RECURSIVE TProcess(_, _, _, _, _)

TGetInputData(ns, cs, id, port_name, fuel, tr) ==
    IF port_name \notin InPorts(NodeOf(ns, id).kind) THEN [err |-> "none", out |-> <<>>, tr |-> tr]
    ELSE IF ~\E c \in cs : c.dst = id /\ c.dport = port_name
         THEN [err |-> "none", out |-> <<>>, tr |-> tr]
    ELSE TGetOutputData(ns, cs, (CHOOSE c \in cs : c.dst = id /\ c.dport = port_name).src,
                        (CHOOSE c \in cs : c.dst = id /\ c.dport = port_name).sport, fuel, tr)

\* process() from the read of the iv port on, the key port having given k
TProcessBody(n, d, k, v) ==
    IF v.err # "none" THEN v ELSE TSetOutputData(n, ProcessWith(n, d, k, v), v.tr)

TProcessIv(ns, cs, n, fuel, d, k) ==
    IF k.err # "none" THEN k
    ELSE TProcessBody(n, d, k, TGetInputData(ns, cs, n.id, "iv", fuel, k.tr))

TProcessKey(ns, cs, n, fuel, d) ==
    IF d.err # "none" THEN d
    ELSE TProcessIv(ns, cs, n, fuel, d, TGetInputData(ns, cs, n.id, "key", fuel, d.tr))

\* process(): a run is logged as it starts, the ports are read in the order
\* data, key, iv, each read handing its trace to the next
TProcess(ns, cs, id, fuel, tr) ==
    TProcessKey(ns, cs, NodeOf(ns, id), fuel,
                TGetInputData(ns, cs, id, "data", fuel, [tr EXCEPT !.log = Append(@, id)]))

TGetOutputData(ns, cs, id, port_name, fuel, tr) ==
    IF fuel = 0 THEN [err |-> "RecursionError", out |-> <<>>, tr |-> tr]
    ELSE TStored(NodeOf(ns, id), port_name, [tr EXCEPT !.calls[id] = @ + 1],
                 TProcess(ns, cs, id, fuel - 1, [tr EXCEPT !.calls[id] = @ + 1]))

\* OutputNode.process: [err, node, tr]
TOutputStore(n, r) == [err |-> r.err, node |-> OutputStore(n, r).node, tr |-> r.tr]

TOutputProcess(ns, cs, id, tr) ==
    TOutputStore(NodeOf(ns, id),
                 TGetInputData(ns, cs, id, "input", MaxDepth(ns), [tr EXCEPT !.log = Append(@, id)]))

\* execute, the loop over the output nodes from the k-th node on: [err, ns, tr]
RECURSIVE TProcessSinksFrom(_, _, _, _)

\* a loop that ends with the first sink it has processed
TProcessSinksAfter_FirstOnly(r, ns, cs, k) ==
    IF r.err # "none" THEN [err |-> r.err, ns |-> ns, tr |-> r.tr]
    ELSE [err |-> "none", ns |-> SetNode(ns, k, r.node), tr |-> r.tr]

\* the loop after the process() of the k-th node, a sink, has given r
TProcessSinksAfter(r, ns, cs, k) ==
    IF r.err # "none" THEN [err |-> r.err, ns |-> ns, tr |-> r.tr]
    ELSE TProcessSinksFrom(SetNode(ns, k, r.node), cs, k + 1, r.tr)

TProcessSinksFrom(ns, cs, k, tr) ==
    IF k > Len(ns) THEN [err |-> "none", ns |-> ns, tr |-> tr]
    ELSE IF ns[k].kind # "OutputNode" THEN TProcessSinksFrom(ns, cs, k + 1, tr)
    ELSE TProcessSinksAfter(TOutputProcess(ns, cs, ns[k].id, tr), ns, cs, k)

\* Pipeline.execute(data, **inputs): [err, ns, results, tr]
TExecuteResults(r) ==
    [err |-> r.err, ns |-> r.ns, tr |-> r.tr,
     results |-> IF r.err = "none" THEN Results(r.ns) ELSE NoResults]

TExecuteSinks(r, cs, tr) ==
    IF r.err # "none" THEN [err |-> r.err, ns |-> r.ns, tr |-> tr]
    ELSE TProcessSinksFrom(r.ns, cs, 1, tr)

TExecuteOn(ns, cs, data, inputs, tr) ==
    TExecuteResults(TExecuteSinks(ExecuteDefault(
        IF inputs # <<>> THEN SetInputsFrom(ns, inputs, 1) ELSE [err |-> "none", ns |-> ns],
        data), cs, tr))

\* the ids of the output nodes
Sinks(ns) == {ns[i].id : i \in {j \in 1..Len(ns) : ns[j].kind = "OutputNode"}}

\* how many times x occurs in the sequence s
Count(s, x) == Cardinality({i \in 1..Len(s) : s[i] = x})

(***************************************************************************)
(* SpecTrace: the text node 'In' feeds a Base64 node and the data port of   *)
(* an RC4 node; the Base64 node feeds its own sink 'B' and, over a wire     *)
(* that is drawn and removed, the key port of the RC4 node, which feeds the *)
(* sink 'X'.  With no key at its port and one of 257 bytes in key_hex the   *)
(* RC4 node raises on data that is not empty, and the execute with it. fnOut holds the trace: the nodes' _output_data as the calls   *)
(* so far left it, and the log and the call counts of the last execute.     *)
(* fnArgs holds the default bytes of the last execute, how the execute      *)
(* before it ended and the buffers the sinks cached before it.              *)
(***************************************************************************)
\* ids, in creation order: In 1, Base64 2, RC4 3, sink 'X' 4, sink 'B' 5
TraceNodes ==
    CreateNodeOn(CreateNodeOn(CreateNodeOn(CreateNodeOn(CreateNodeOn(<<>>,
        "TextInputNode", N_In), "Base64Node", N_X1), "RC4Node", N_X2),
        "OutputNode", N_X), "OutputNode", N_B)

TraceConns ==
    ConnectOn(ConnectOn(ConnectOn(ConnectOn({}, 1, "output", 2, "data"),
        1, "output", 3, "data"), 3, "output", 4, "input"), 2, "output", 5, "input")

\* the wire from the Base64 node to the key port of the RC4 node
TraceKeyWire == [src |-> 2, sport |-> "output", dst |-> 3, dport |-> "key"]

\* '00' 257 times, a key longer than ARC4 takes
S_LongKeyHex == [i \in 1..(2 * (ARC4MaxKey + 1)) |-> 48]

\* the default bytes execute is given
TraceDefaults == {None} \cup {Some(x) : x \in {<<>>, <<65>>, S_Test}}

InitTrace ==
    /\ nodes = TraceNodes
    /\ conns = TraceConns
    /\ ret = Returned("init", "none", NoResults)
    /\ keySeq = 0
    /\ fnArgs = <<>>
    /\ fnOut = NoTrace(TraceNodes)

TraceSetMode(mode) ==
    /\ SetProperty(2, "mode", mode)
    /\ UNCHANGED <<keySeq, fnArgs, fnOut>>

TraceSetKey(key_hex) ==
    /\ SetProperty(3, "key_hex", key_hex)
    /\ UNCHANGED <<keySeq, fnArgs, fnOut>>

TraceConnectKey ==
    /\ TraceKeyWire \notin conns
    /\ CanConnect(nodes, 2, "output", 3, "key")
    /\ conns' = ConnectOn(conns, 2, "output", 3, "key")
    /\ UNCHANGED <<nodes, ret, keySeq, fnArgs, fnOut>>

TraceDisconnectKey ==
    /\ Disconnect(TraceKeyWire)
    /\ UNCHANGED <<keySeq, fnArgs, fnOut>>

\* the traced execute has given r
TraceReturns(r) ==
    /\ nodes' = r.ns
    /\ ret' = Returned("execute", r.err, r.results)
    /\ fnOut' = r.tr

\* execute(data) on the graph as it is, on the _output_data the calls before
\* left; the log and the call counts start anew
TraceExecute(data) ==
    /\ TraceReturns(TExecuteOn(nodes, conns, data, <<>>,
                                [NoTrace(nodes) EXCEPT !.store = fnOut.store]))
    /\ fnArgs' = [data |-> data, before |-> ret.err,
                  cached |-> [id \in Sinks(nodes) |-> NodeOf(nodes, id).data]]
    /\ UNCHANGED <<conns, keySeq>>

NextTrace ==
    \/ \E mode \in {S_Encode, S_Decode} : TraceSetMode(mode)
    \/ \E key_hex \in {S_00, S_LongKeyHex} : TraceSetKey(key_hex)
    \/ TraceConnectKey
    \/ TraceDisconnectKey
    \/ \E d \in TraceDefaults : TraceExecute(d)

SpecTrace == InitTrace /\ [][NextTrace]_vars

\* the step is an execute: every other call of SpecTrace changes a
\* connection or a parameter of the Base64 or the RC4 node
TraceExecuted == conns' = conns /\ nodes'[2] = nodes[2] /\ nodes'[3] = nodes[3]

\* the buffer assigned to a node's output port is the one of r
HoldsBuffer(stored, r) == r.err = "none" => stored = Some(r.out)

\* a node's output port is assigned once its process() has completed as r
Assigned(stored, r) == r.err = "none" => stored # None

\* the call has returned what r holds and left the nodes of r
ReturnedAs(r, ns, rt) == r.err = rt.err /\ r.results = rt.results /\ r.ns = ns

\* the call has raised as r has or, if it returned, returned as r has
EndedAs(r, ns, rt) == r.err = rt.err /\ (rt.err = "none" => ReturnedAs(r, ns, rt))

\* the process() runs of the nodes that read node id, one for every
\* connection that leaves id
ConsumerRuns(cs, log, id) ==
    Cardinality({ci \in {c \in cs : c.src = id} \X (1..Len(log)) : log[ci[2]] = ci[1].dst})

\* C21: within one execute every get_output_data call on a node runs the
\* node's process() again: the node runs as often as it is called, it is
\* called once for every run of every node reading it (twice when it feeds
\* two consumers that each run once), and the buffer it holds afterwards is
\* the one computed from the graph as it is, whatever earlier calls left.
C21_EveryCallRunsTransform ==
    [][TraceExecuted =>
          \A id \in Ids(nodes') \ Sinks(nodes') :
              /\ Count(fnOut'.log, id) = fnOut'.calls[id]
              /\ fnOut'.calls[id] = ConsumerRuns(conns, fnOut'.log, id)
              /\ fnOut'.calls[id] > 0 =>
                    HoldsBuffer(fnOut'.store[id],
                                GetOutputData(nodes', conns, id, "output", MaxDepth(nodes')))]_vars

\* 'In' feeds the Base64 node and the data port of the RC4 node, each run
\* once: the log of the execute on 'Test' holds 'In' twice, and 'In' is left
\* holding 'Test'
C21_Witness ==
    /\ ret.op = "execute"
    /\ TraceKeyWire \notin conns
    /\ fnOut.log = <<4, 3, 1, 5, 2, 1>>
    /\ fnOut.calls[1] = 2
    /\ fnOut.store[1] = Some(S_Test)
    /\ ret.results[N_B] = <<86, 71, 86, 122, 100, 65, 61, 61>>

\* the nodes reached from the nodes of S over at most fuel connections
RECURSIVE Downstream(_, _, _)
Downstream(cs, S, fuel) ==
    IF fuel = 0 THEN S
    ELSE Downstream(cs, S \cup {c.dst : c \in {x \in cs : x.src \in S}}, fuel - 1)

\* the sinks that read node id, directly or through other nodes
DependentSinks(ns, cs, id) == Sinks(ns) \cap Downstream(cs, {id}, Len(ns))

\* the chains of connections that lead from node id to a sink of T
RECURSIVE PathsTo(_, _, _, _)
RECURSIVE PathsOver(_, _, _, _)
PathsOver(cs, T, out, fuel) ==
    IF out = {} THEN 0
    ELSE PathsTo(cs, T, (CHOOSE c \in out : TRUE).dst, fuel)
             + PathsOver(cs, T, out \ {CHOOSE c \in out : TRUE}, fuel)

PathsTo(cs, T, id, fuel) ==
    IF id \in T THEN 1
    ELSE IF fuel = 0 THEN 0
    ELSE PathsOver(cs, T, {c \in cs : c.src = id}, fuel - 1)

PathsToSinks(ns, cs, id) == PathsTo(cs, Sinks(ns), id, Len(ns))

\* the ids of the sinks in node order
RECURSIVE SinksInOrder(_, _)
SinksInOrder(ns, k) ==
    IF k > Len(ns) THEN <<>>
    ELSE (IF ns[k].kind = "OutputNode" THEN <<ns[k].id>> ELSE <<>>) \o SinksInOrder(ns, k + 1)

\* C22 as stated: in an execute that returns, every node's process() runs
\* as many times as there are sinks that depend on the node.
C22_RunsEqualDependentSinks ==
    [][(TraceExecuted /\ ret'.err = "none") =>
          \A id \in Ids(nodes') \ Sinks(nodes') :
              Count(fnOut'.log, id) = Cardinality(DependentSinks(nodes', conns, id))]_vars

\* C22: in an execute that returns, the sinks are processed one after the
\* other in node order, and every node's process() runs once for every chain
\* of connections that leads from the node to a sink: as often as there are
\* sinks depending on it when each is reached over one chain only.
C22_RunsEqualPathsToSinks ==
    [][(TraceExecuted /\ ret'.err = "none") =>
          /\ SelectSeq(fnOut'.log, LAMBDA id : id \in Sinks(nodes')) = SinksInOrder(nodes', 1)
          /\ \A id \in Ids(nodes') \ Sinks(nodes') :
                /\ Count(fnOut'.log, id) = PathsToSinks(nodes', conns, id)
                /\ (\A s \in DependentSinks(nodes', conns, id) :
                        PathsTo(conns, {s}, id, Len(nodes')) = 1) =>
                       Count(fnOut'.log, id) = Cardinality(DependentSinks(nodes', conns, id))]_vars

\* with the key wire drawn 'In' reaches the sink 'X' over the data port of
\* the RC4 node and over the Base64 node and the key port: it runs three
\* times for the two sinks that depend on it
C22_Witness ==
    /\ ret.op = "execute"
    /\ ret.err = "none"
    /\ TraceKeyWire \in conns
    /\ fnOut.log = <<4, 3, 1, 2, 1, 5, 2, 1>>
    /\ PathsToSinks(nodes, conns, 1) = 3
    /\ DependentSinks(nodes, conns, 1) = {4, 5}

\* the states a sink's cache is drawn from besides those the executes
\* before left: [data, props]
SinkCaches ==
    { [data |-> S_Test, props |-> [length |-> IntToText(4) \o S_bytes, preview |-> S_Test]] }

\* the nodes with the cache of every sink replaced by st
WithSinkCache(ns, st) ==
    [i \in 1..Len(ns) |->
        IF ns[i].kind = "OutputNode" THEN [ns[i] EXCEPT !.data = st.data, !.props = st.props]
        ELSE ns[i]]

\* C23: whatever buffer, length and preview the sinks had cached before an
\* execute, the execute raises or returns alike, and one that returns
\* returns the same mapping and leaves the same nodes, sinks included.
C23_SinkCacheNoEffect ==
    [][TraceExecuted =>
          \A st \in SinkCaches :
              EndedAs(ExecuteOn(WithSinkCache(nodes, st), conns, fnArgs'.data, <<>>),
                      nodes', ret')]_vars

\* an execute on the empty text, the sink 'B' having cached 'VGVzdA==' from
\* the execute before: the sink is left empty
C23_Witness ==
    /\ ret.op = "execute"
    /\ fnArgs.data = Some(<<>>)
    /\ fnArgs.cached[5] = <<86, 71, 86, 122, 100, 65, 61, 61>>
    /\ ret.results[N_B] = <<>>
    /\ nodes[5].data = <<>>
    /\ nodes[5].props["length"] = S_0_bytes

\* C27: every process() that completes leaves a buffer assigned to the
\* node's output port, and what an execute returns or raises and the nodes
\* it leaves are those computed from the nodes, connections and parameters
\* alone, whatever the executes, edits and failures before it left in the
\* nodes' _output_data.
C27_ExecuteFunctionOfGraph ==
    [][TraceExecuted =>
          /\ \A id \in Ids(nodes') \ Sinks(nodes') :
                fnOut'.calls[id] > 0 =>
                    Assigned(fnOut'.store[id],
                             GetOutputData(nodes', conns, id, "output", MaxDepth(nodes')))
          /\ ReturnedAs(ExecuteOn(nodes, conns, fnArgs'.data, <<>>), nodes', ret')]_vars

\* an execute that returns after one that the RC4 node made raise: with
\* the long key in key_hex, the key comes over the wire from the Base64 node
C27_Witness ==
    /\ ret.op = "execute"
    /\ ret.err = "none"
    /\ fnArgs.before = "ValueError"
    /\ fnArgs.data = Some(S_Test)
    /\ nodes[3].props["key_hex"] = S_LongKeyHex
    /\ fnOut.store[2] = Some(<<86, 71, 86, 122, 100, 65, 61, 61>>)
    /\ Len(ret.results[N_X]) = 4

(***************************************************************************)
(* SpecCycle: the text node 'In' feeds the sink 'R' and the data port of an *)
(* XOR node, which feeds the sink 'Out'.  Wires are drawn and removed from  *)
(* the XOR node to a Reverse node and from the Reverse node, or from the    *)
(* XOR node itself, to the key port of the XOR node.                        *)
(***************************************************************************)
\* ids, in creation order: In 1, XOR 2, Reverse 3, sink 'R' 4, sink 'Out' 5
CycleNodes ==
    CreateNodeOn(CreateNodeOn(CreateNodeOn(CreateNodeOn(CreateNodeOn(<<>>,
        "TextInputNode", N_In), "XORNode", N_X1), "ReverseNode", N_X2),
        "OutputNode", N_R), "OutputNode", N_Out)

CycleConns ==
    ConnectOn(ConnectOn(ConnectOn({}, 1, "output", 4, "input"),
        1, "output", 2, "data"), 2, "output", 5, "input")

\* the wires that are drawn and removed
CycleWires ==
    { [src |-> 2, sport |-> "output", dst |-> 3, dport |-> "data"],
      [src |-> 3, sport |-> "output", dst |-> 2, dport |-> "key"],
      [src |-> 2, sport |-> "output", dst |-> 2, dport |-> "key"],
      [src |-> 1, sport |-> "output", dst |-> 2, dport |-> "key"] }

\* the default bytes execute is given
CycleDefaults == {None} \cup {Some(x) : x \in {<<>>, <<65>>, S_Test}}

\* how deep a chain of get_output_data calls is followed
CycleDepth == 8

InitCycle ==
    /\ nodes = CycleNodes
    /\ conns = CycleConns
    /\ ret = Returned("init", "none", NoResults)
    /\ keySeq = 0
    /\ fnArgs = <<>>
    /\ fnOut = <<>>

CycleConnect(c) ==
    /\ c \notin conns
    /\ CanConnect(nodes, c.src, c.sport, c.dst, c.dport)
    /\ conns' = ConnectOn(conns, c.src, c.sport, c.dst, c.dport)
    /\ UNCHANGED <<nodes, ret, keySeq, fnArgs, fnOut>>

CycleDisconnect(c) ==
    /\ Disconnect(c)
    /\ UNCHANGED <<keySeq, fnArgs, fnOut>>

CycleExecute(data) ==
    /\ Execute(data, <<>>)
    /\ UNCHANGED <<keySeq, fnArgs, fnOut>>

NextCycle ==
    \/ \E c \in CycleWires : CycleConnect(c)
    \/ \E c \in CycleWires : CycleDisconnect(c)
    \/ \E d \in CycleDefaults : CycleExecute(d)

SpecCycle == InitCycle /\ [][NextCycle]_vars

\* node id lies on a cycle of connections
OnCycle(ns, cs, id) == id \in Downstream(cs, {c.dst : c \in {x \in cs : x.src = id}}, Len(ns))

\* a sink whose upstream subgraph holds a node that lies on a cycle
CyclicSinks(ns, cs) ==
    {s \in Sinks(ns) : \E id \in Ids(ns) : OnCycle(ns, cs, id) /\ s \in Downstream(cs, {id}, Len(ns))}

\* C24: an execute on a graph with a cycle upstream of a sink ends in no
\* result: the chain of get_output_data calls from the sink's input is still
\* open at every depth it is followed to, the execute raises RecursionError
\* and returns no mapping; no call finds the cycle and gives a buffer for it.
\* Without such a cycle the execute returns.
C24_CycleNeverResolves ==
    [][\A d \in CycleDefaults : CycleExecute(d) =>
          /\ \A s \in CyclicSinks(nodes, conns) : \A fuel \in 0..CycleDepth :
                GetInputData(nodes', conns, s, "input", fuel).err = "RecursionError"
          /\ (CyclicSinks(nodes, conns) # {}) =>
                (ret'.err = "RecursionError" /\ ret'.results = NoResults)
          /\ (CyclicSinks(nodes, conns) = {}) => ret'.err = "none"]_vars

\* the XOR node reads its key from the Reverse node, which reads the XOR
\* node: the execute on 'Test' has raised after the sink 'R', which no cycle
\* reaches, was processed
C24_Witness ==
    /\ ret.op = "execute"
    /\ ret.err = "RecursionError"
    /\ {c \in CycleWires : c \in conns} =
          { [src |-> 2, sport |-> "output", dst |-> 3, dport |-> "data"],
            [src |-> 3, sport |-> "output", dst |-> 2, dport |-> "key"] }
    /\ nodes[1].props["text_data"] = S_Test
    /\ nodes[4].data = S_Test
    /\ nodes[5].data = <<>>

(***************************************************************************)
(* SpecAES: an AES node between the hex node 'In' and the sink 'Out', its   *)
(* key and iv drawn by length and given either over the key and iv ports,   *)
(* from the hex nodes 'Key' and 'IV', or in key_hex and iv_hex.             *)
(***************************************************************************)
N_IV == <<73, 86>>                      \* 'IV'
N_AES == <<65, 69, 83>>                 \* 'AES'

AesKeyLens == {0, 1, 15, 16, 17, 24, 25, 32, 33}
AesIvLens == {0, 15, 16, 17}
AesModes == {S_CBC_Encrypt, S_CBC_Decrypt, S_ECB_Encrypt, S_ECB_Decrypt, S_CTR}

\* the key or iv of n bytes: 1, 2, ..., n
BytesUpTo(n) == [i \in 1..n |-> i]

\* ids, in creation order: In 1, Key 2, IV 3, AES 4, Out 5.  With the ports
\* wired key_hex and iv_hex hold 'ff'; else they hold the drawn key and iv.
AesNodes(a) ==
    LET created == CreateNodeOn(CreateNodeOn(CreateNodeOn(CreateNodeOn(CreateNodeOn(<<>>,
                       "HexInputNode", N_In), "HexInputNode", N_Key), "HexInputNode", N_IV),
                       "AESNode", N_AES), "OutputNode", N_Out)
    IN  SetProp(SetProp(SetProp(SetProp(SetProp(SetProp(created,
            1, "hex_data", ToHex(S_A16)),
            2, "hex_data", ToHex(BytesUpTo(a.klen))),
            3, "hex_data", ToHex(BytesUpTo(a.ivlen))),
            4, "key_hex", IF a.wired THEN S_ff ELSE ToHex(BytesUpTo(a.klen))),
            4, "iv_hex", IF a.wired THEN S_ff ELSE ToHex(BytesUpTo(a.ivlen))),
            4, "mode", a.mode)

AesConns(wired) ==
    LET data == ConnectOn(ConnectOn({}, 1, "output", 4, "data"), 4, "output", 5, "input")
    IN  IF wired THEN ConnectOn(ConnectOn(data, 2, "output", 4, "key"), 3, "output", 4, "iv")
        ELSE data

InitAES ==
    /\ fnArgs \in [klen : AesKeyLens, ivlen : AesIvLens, mode : AesModes, wired : BOOLEAN]
    /\ nodes = AesNodes(fnArgs)
    /\ conns = AesConns(fnArgs.wired)
    /\ ret = Returned("init", "none", NoResults)
    /\ keySeq = 0
    /\ fnOut = <<>>

AesExecute ==
    /\ ret.op = "init"
    /\ Execute(None, <<>>)
    /\ UNCHANGED <<keySeq, fnArgs, fnOut>>

NextAES == AesExecute

SpecAES == InitAES /\ [][NextAES]_vars

\* the key or iv the node is given: the buffer at the port when the port is
\* wired and the buffer is not empty, else the byte 0xff of key_hex and
\* iv_hex when wired, else the drawn bytes
AesGiven(wired, n) == IF wired /\ n = 0 THEN <<255>> ELSE BytesUpTo(n)

\* the first 16 bytes of b, zero bytes added on the right of a shorter b
First16ZeroPadded(b) == [i \in 1..16 |-> IF i <= Len(b) THEN b[i] ELSE 0]

\* the key the cipher is to run with
AesRunKey(key) == IF Len(key) \in {16, 24, 32} THEN key ELSE First16ZeroPadded(key)

\* the output of the cipher run in the mode on 16 bytes of data
AesRun(mode, key, iv, data) ==
    CASE mode = S_ECB_Encrypt -> ECBEncrypt(key, Pad(data))
      [] mode = S_ECB_Decrypt ->
            IF Unpad(ECBDecrypt(key, data)).ok THEN Unpad(ECBDecrypt(key, data)).data
            ELSE ECBDecrypt(key, data)
      [] mode = S_CBC_Encrypt -> CBCEncrypt(key, iv, Pad(data))
      [] mode = S_CBC_Decrypt ->
            IF Unpad(CBCDecrypt(key, iv, data)).ok THEN Unpad(CBCDecrypt(key, iv, data)).data
            ELSE CBCDecrypt(key, iv, data)
      [] mode = S_CTR -> CTRCrypt(key, iv, data).data

\* C25: the AES node's output is the cipher's, run with a key of 16, 24 or
\* 32 bytes and an iv of 16 bytes: a key of 16, 24 or 32 bytes as given, any
\* other key cut to its first 16 bytes with zero bytes added on the right,
\* and the iv cut or filled with zero bytes to 16.
C25_AESKeyIvCoerced ==
    ret.op = "execute" =>
        /\ ret.err = "none"
        /\ Len(AesRunKey(AesGiven(fnArgs.wired, fnArgs.klen))) \in {16, 24, 32}
        /\ ret.results[N_Out] =
              AesRun(fnArgs.mode, AesRunKey(AesGiven(fnArgs.wired, fnArgs.klen)),
                     First16ZeroPadded(AesGiven(fnArgs.wired, fnArgs.ivlen)), S_A16)

\* a key of 33 bytes and an iv of 17 at the ports in CBC Encrypt mode: two
\* blocks come out, those of the key 1..16 and the iv 1..16
C25_Witness ==
    /\ ret.op = "execute"
    /\ fnArgs = [klen |-> 33, ivlen |-> 17, mode |-> S_CBC_Encrypt, wired |-> TRUE]
    /\ Len(ret.results[N_Out]) = 32
    /\ ret.results[N_Out] = CBCEncrypt(BytesUpTo(16), BytesUpTo(16), Pad(S_A16))
    /\ ret.results[N_Out] # CBCEncrypt(BytesUpTo(32), BytesUpTo(16), Pad(S_A16))

(***************************************************************************)
(* SpecEmpty: a transform node 'X' of a drawn kind with drawn parameters    *)
(* before the sink 'Out'.  Its data port is left unconnected, or reads the  *)
(* hex node 'In' holding '' or the malformed 'zz', or reads a Base64 node   *)
(* that fails to decode the 'A' of 'In'.  Its key and iv ports, where it    *)
(* has them, are left unconnected or read the hex node 'Key' holding 'A'.   *)
(***************************************************************************)
S_Compress == <<67, 111, 109, 112, 114, 101, 115, 115>>    \* 'Compress'
S_41 == <<52, 49>>                                          \* '41'

TransformKinds == PipelineKinds \ (SourceKinds \cup {"OutputNode"})

\* the parameter values drawn besides the defaults: <<property, value>>
EmptyAlternatives(kind) ==
    CASE kind \in {"XORNode", "RC4Node"} -> {<<"key_hex", S_zz>>, <<"key_hex", <<>> >>}
      [] kind = "AESNode" ->
            {<<"mode", S_CBC_Decrypt>>, <<"mode", S_ECB_Encrypt>>, <<"mode", S_ECB_Decrypt>>,
             <<"mode", S_CTR>>, <<"key_hex", S_zz>>}
      [] kind \in {"MD5Node", "SHA1Node", "SHA256Node"} -> {<<"format", S_Raw>>}
      [] kind \in {"Base64Node", "HexEncodeNode", "URLEncodeNode"} -> {<<"mode", S_Decode>>}
      [] kind \in {"ZlibNode", "GzipNode"} -> {<<"mode", S_Compress>>}
      [] kind = "ROTNode" -> {<<"shift", S_zz>>, <<"shift", S_0>>}
      [] kind = "SubstringNode" -> {<<"start", S_zz>>, <<"end", S_2>>}
      [] kind = "RepeatNode" -> {<<"count", S_257>>, <<"count", S_zz>>}
      [] kind = "TakeBytesNode" -> {<<"mode", S_Start_End>>, <<"start", S_2>>, <<"param2", S_2>>}
      [] OTHER -> {}

EmptyProps(kind) ==
    {DefaultProps(kind)} \cup
        {[DefaultProps(kind) EXCEPT ![a[1]] = a[2]] : a \in EmptyAlternatives(kind)}

EmptyDraws ==
    UNION {[kind : {k}, props : EmptyProps(k),
            up : {"unconnected", "empty", "malformed", "failed"}, wired : BOOLEAN]
               : k \in TransformKinds}

\* ids, in creation order: In 1, Base64 2, Key 3, X 4, Out 5
EmptyNodes(a) ==
    LET created == CreateNodeOn(CreateNodeOn(CreateNodeOn(CreateNodeOn(CreateNodeOn(<<>>,
                       "HexInputNode", N_In), "Base64Node", N_B), "HexInputNode", N_Key),
                       a.kind, N_X), "OutputNode", N_Out)
    IN  [SetProp(SetProp(SetProp(created,
            1, "hex_data", CASE a.up = "empty" -> <<>>
                             [] a.up = "malformed" -> S_zz
                             [] OTHER -> S_41),
            2, "mode", S_Decode),
            3, "hex_data", S_41) EXCEPT ![4].props = a.props]

EmptyConns(a) ==
    LET out == ConnectOn({}, 4, "output", 5, "input")
        hashOut == ConnectOn({}, 4, "hash", 5, "input")
        sink == IF "hash" \in OutPorts(a.kind) THEN hashOut ELSE out
        data == CASE a.up = "unconnected" -> sink
                  [] a.up = "failed" ->
                        ConnectOn(ConnectOn(sink, 1, "output", 2, "data"), 2, "output", 4, "data")
                  [] OTHER -> ConnectOn(sink, 1, "output", 4, "data")
        key == IF a.wired /\ "key" \in InPorts(a.kind)
               THEN ConnectOn(data, 3, "output", 4, "key") ELSE data
    IN  IF a.wired /\ "iv" \in InPorts(a.kind) THEN ConnectOn(key, 3, "output", 4, "iv") ELSE key

InitEmpty ==
    /\ fnArgs \in EmptyDraws
    /\ nodes = EmptyNodes(fnArgs)
    /\ conns = EmptyConns(fnArgs)
    /\ ret = Returned("init", "none", NoResults)
    /\ keySeq = 0
    /\ fnOut = <<>>

EmptyExecute ==
    /\ ret.op = "init"
    /\ Execute(None, <<>>)
    /\ UNCHANGED <<keySeq, fnArgs, fnOut>>

NextEmpty == EmptyExecute

SpecEmpty == InitEmpty /\ [][NextEmpty]_vars

\* C26: with the empty buffer at its data port, a transform node of any
\* kind, whatever its parameters and its key and iv ports hold, sets the
\* empty buffer on its output port, and the sink reading it caches the empty
\* buffer and returns it: so it is with the data port unconnected, behind a
\* source that holds nothing and behind a transform that failed.
C26_EmptyInEmptyOut ==
    ret.op = "execute" =>
        /\ GetInputData(nodes, conns, 4, "data", MaxDepth(nodes)) = Ok(<<>>)
        /\ \A port_name \in OutPorts(fnArgs.kind) :
              GetOutputData(nodes, conns, 4, port_name, MaxDepth(nodes)) = Ok(<<>>)
        /\ ret.err = "none"
        /\ ret.results[N_Out] = <<>>
        /\ nodes[5].data = <<>>
        /\ nodes[5].props["length"] = S_0_bytes

\* an MD5 node in Raw format behind the Base64 node that failed to decode
\* 'A': the sink has returned the empty buffer
C26_Witness ==
    /\ ret.op = "execute"
    /\ fnArgs.kind = "MD5Node"
    /\ fnArgs.props["format"] = S_Raw
    /\ fnArgs.up = "failed"
    /\ GetOutputData(nodes, conns, 1, "output", MaxDepth(nodes)) = Ok(<<65>>)
    /\ ret.results[N_Out] = <<>>

\* C29: a set_inputs or an execute with several keyword arguments that
\* raises KeyError, a keyword naming no source node, leaves every parameter
\* of every node as it was before the call.
C29_NamedInputsAllOrNothing ==
    [][(/\ ret'.op \in {"set_inputs", "execute"}
        /\ ret'.err = "KeyError"
        /\ Len(fnArgs'.inputs) > 1) =>
           \A i \in 1..Len(nodes) : nodes'[i].props = nodes[i].props]_vars

(***************************************************************************)
(* SpecFrame: execute and set_input on one of two graphs.  The first has no *)
(* Text Input node: the hex node 'Key' feeds a Reverse node before the sink *)
(* 'Out'.  The second has two: 'In' feeds the sink 'R', 'My In' and the hex *)
(* node 'Key' feed the data and key ports of an XOR node before the sink    *)
(* 'Out'.  fnArgs holds the arguments of the last call.                     *)
(***************************************************************************)
FrameGraphs ==
    { [nodes |-> CreateNodeOn(CreateNodeOn(CreateNodeOn(<<>>,
                    "HexInputNode", N_Key), "ReverseNode", N_X), "OutputNode", N_Out),
       conns |-> ConnectOn(ConnectOn({}, 1, "output", 2, "data"), 2, "output", 3, "input")],
      [nodes |-> CreateNodeOn(CreateNodeOn(CreateNodeOn(CreateNodeOn(CreateNodeOn(
                    CreateNodeOn(<<>>, "TextInputNode", N_In), "TextInputNode", N_MyIn),
                    "HexInputNode", N_Key), "XORNode", N_X), "OutputNode", N_Out),
                    "OutputNode", N_R),
       conns |-> ConnectOn(ConnectOn(ConnectOn(ConnectOn({}, 2, "output", 4, "data"),
                    3, "output", 4, "key"), 4, "output", 5, "input"), 1, "output", 6, "input")] }

FrameDefaults == {None, Some(<<67>>), Some(<<255>>)}

FrameNamed ==
    { <<>>,
      << [name |-> N_Key, data |-> <<255>>] >>,
      << [name |-> N_My_In, data |-> <<65>>] >>,
      << [name |-> N_Key, data |-> <<65>>], [name |-> N_Nope, data |-> <<65>>] >> }

InitFrame ==
    /\ \E g \in FrameGraphs : nodes = g.nodes /\ conns = g.conns
    /\ ret = Returned("init", "none", NoResults)
    /\ keySeq = 0
    /\ fnArgs = [data |-> None, inputs |-> <<>>]
    /\ fnOut = <<>>

FrameSetInput(node_name, data) ==
    /\ SetInput(node_name, data)
    /\ fnArgs' = [data |-> Some(data), inputs |-> <<>>]
    /\ UNCHANGED <<keySeq, fnOut>>

FrameExecute(data, inputs) ==
    /\ Execute(data, inputs)
    /\ fnArgs' = [data |-> data, inputs |-> inputs]
    /\ UNCHANGED <<keySeq, fnOut>>

NextFrame ==
    \/ \E nm \in {N_Key, N_In}, d \in {<<>>, <<66>>} : FrameSetInput(nm, d)
    \/ \E d \in FrameDefaults, inputs \in FrameNamed : FrameExecute(d, inputs)

SpecFrame == InitFrame /\ [][NextFrame]_vars

\* the parameter of a source node that set_input writes
ValueProp(kind) ==
    CASE kind = "TextInputNode" -> "text_data"
      [] kind = "HexInputNode" -> "hex_data"
      [] kind = "FileInputNode" -> "file_path"

\* the first Text Input node in node order is node i
FirstText(ns, i) ==
    /\ ns[i].kind = "TextInputNode"
    /\ \A j \in 1..(i - 1) : ns[j].kind # "TextInputNode"

\* the parameter prop of node i is one an execute(data, **inputs) may write
MayWrite(ns, i, prop, data, inputs) ==
    \/ /\ ns[i].kind \in SourceKinds
       /\ ns[i].name \in Addressed(inputs)
       /\ prop = ValueProp(ns[i].kind)
    \/ data # None /\ FirstText(ns, i) /\ prop = "text_data"
    \/ ns[i].kind = "OutputNode" /\ prop \in {"length", "preview"}

\* C28: an execute, returning or raising, leaves the connections and the
\* nodes' ids, kinds, names and parameter names as they were, and changes no
\* parameter value but the value parameter of a source node a keyword
\* argument names, the text of the first Text Input node when default bytes
\* are given, and the length and preview of sinks; given only default bytes
\* on a graph with no Text Input node it changes no parameter of a source.
C28_ExecuteFrame ==
    [][ret'.op = "execute" =>
          /\ conns' = conns
          /\ Len(nodes') = Len(nodes)
          /\ \A i \in 1..Len(nodes) :
                /\ nodes'[i].id = nodes[i].id
                /\ nodes'[i].kind = nodes[i].kind
                /\ nodes'[i].name = nodes[i].name
                /\ DOMAIN nodes'[i].props = DOMAIN nodes[i].props
                /\ \A prop \in DOMAIN nodes[i].props :
                      nodes'[i].props[prop] # nodes[i].props[prop] =>
                          MayWrite(nodes, i, prop, fnArgs'.data, fnArgs'.inputs)
          /\ (/\ fnArgs'.data # None
              /\ fnArgs'.inputs = <<>>
              /\ \A i \in 1..Len(nodes) : nodes[i].kind # "TextInputNode") =>
                \A i \in 1..Len(nodes) :
                    nodes[i].kind \in SourceKinds => nodes'[i].props = nodes[i].props]_vars

\* execute(b'C') on the graph with no Text Input node has returned the
\* reversed bytes of 'Key' and left 'Key' as it was
C28_Witness ==
    /\ ret.op = "execute"
    /\ ret.err = "none"
    /\ fnArgs = [data |-> Some(<<67>>), inputs |-> <<>>]
    /\ Len(nodes) = 3
    /\ nodes[1].props["hex_data"] = S_HelloHex
    /\ ret.results[N_Out] = <<111, 108, 108, 101, 72>>
    /\ nodes[3].props["length"] = IntToText(5) \o S_bytes

(***************************************************************************)
(* SpecKinds: a Pipeline and a GraphTab of the editor (main.py), each with  *)
(* the node classes it registers, each creating one node of a kind it has   *)
(* registered.  nodes is the Pipeline's graph, fnOut the GraphTab's.        *)
(***************************************************************************)
\* every class GraphTab registers (main.py ALL_NODE_CLASSES)
GraphTabKinds ==
    {"XORNode", "RC4Node", "AESNode", "Base64Node", "MD5Node", "SHA1Node", "SHA256Node",
     "URLEncodeNode", "HexEncodeNode", "ROTNode", "AtbashNode", "ReverseNode", "ZlibNode",
     "GzipNode", "SubstringNode", "RepeatNode", "HexInputNode", "TextInputNode",
     "FileInputNode", "OutputNode"}

InitKinds ==
    /\ nodes = <<>>
    /\ conns = {}
    /\ ret = Returned("init", "none", NoResults)
    /\ keySeq = 0
    /\ fnArgs = <<>>
    /\ fnOut = <<>>

PipelineCreate(kind) ==
    /\ nodes = <<>>
    /\ kind \in PipelineKinds
    /\ CreateNode(kind, N_X)
    /\ UNCHANGED <<keySeq, fnArgs, fnOut>>

GraphTabCreate(kind) ==
    /\ fnOut = <<>>
    /\ kind \in GraphTabKinds
    /\ fnOut' = CreateNodeOn(fnOut, kind, N_X)
    /\ UNCHANGED <<nodes, conns, ret, keySeq, fnArgs>>

NextKinds ==
    \/ \E kind \in PipelineKinds \cup GraphTabKinds : PipelineCreate(kind)
    \/ \E kind \in PipelineKinds \cup GraphTabKinds : GraphTabCreate(kind)

SpecKinds == InitKinds /\ [][NextKinds]_vars

\* C30: the Pipeline and the GraphTab register the same kinds: the kind of
\* every node in the graph of one is a kind the other has registered, so a
\* graph saved by one holds no kind the other cannot load.
C30_SameKindsRegistered ==
    /\ \A i \in 1..Len(nodes) : nodes[i].kind \in GraphTabKinds
    /\ \A i \in 1..Len(fnOut) : fnOut[i].kind \in PipelineKinds

====
